---- MODULE Spec2Model ----
(***************************************************************************)
(* Verification model of the two API clients of the nutrition tracker:     *)
(*   - the SwiftUI client  (AINUT/Services/NetworkManager.swift + views)   *)
(*   - the React Native client (src/config/api.js + screens)               *)
(*                                                                         *)
(* Nine specifications share this module:                                  *)
(*   SpecResp    : the response normalisation of both clients applied to   *)
(*                 the same HTTP response (pure functions)                 *)
(*   Spec        : the iOS NetworkManager as a state machine with requests *)
(*                 in flight                                               *)
(*   SpecRN      : the React Native screens calling apiRequest             *)
(*   SpecViews   : the SwiftUI views calling the NetworkManager            *)
(*   SpecFoodLog : the food-log screens of both clients and their          *)
(*                 daily summaries                                         *)
(*   SpecDates   : the iOS FoodLogView with its date selection             *)
(*   SpecRNDates : the date navigation of the React Native FoodLogScreen   *)
(*   SpecLevel   : the achievement level both clients compute              *)
(*   SpecConvert : convertToFoodLogItems on the JSON of the food logs      *)
(***************************************************************************)
EXTENDS Integers, Sequences, FiniteSets, TLC

VARIABLES
    \* ---- SpecResp: one response handed to both clients
    resp,            \* the HTTP exchange result under test
    respU,           \* the type U the iOS caller decodes into
    overload,        \* which performRequest overload handles it
    iosOut,          \* outcome of NetworkManager.performRequest, None before
    rnOut,           \* outcome of apiRequest, None before
    uploadOut,       \* outcome of NetworkManager.uploadImage, None before
    \* ---- Spec: NetworkManager
    authToken,       \* UserDefaults "auth_token": None or Some(token)
    isAuthenticated, \* @Published
    currentUser,     \* @Published: None or Some(username)
    isLoading,       \* @Published
    errorMessage,    \* @Published: None or Some(message)
    authFlow,        \* the register/login call in progress
    meTasks,         \* getCurrentUser tasks spawned by checkAuthStatus
    callTasks,       \* view tasks calling the API methods
    sent,            \* number of requests handed to URLSession so far
    lastReq,         \* the last request handed to URLSession
    lastOutcome,     \* how the most recently finished call ended
    terminated,      \* the process was ended by an uncaught NSException
    \* ---- SpecRN: auth context and screen state
    rnToken,         \* AuthContext token: None or Some(token)
    rnUser,          \* AuthContext user: None or Some(username)
    rnFoodLogs,      \* FoodLogScreen foodLogs state
    rnTodayStats,    \* HomeScreen todayStats state
    rnAdvice,        \* NutritionAdviceScreen advice state
    rnMealResult,    \* MealAnalysisScreen mealResult state
    rnSent,          \* number of fetch calls so far
    rnLastReq,       \* the last fetch issued
    rnOutcome,       \* how the most recent screen call ended
    rnProfile,       \* ProfileScreen profile state
    rnAchievements,  \* ProfileScreen achievements state
    \* ---- SpecRNDates: FoodLogScreen's date navigation
    rnNow,           \* the clock (what new Date() returns), in ticks
    rnSelectedDate,  \* FoodLogScreen selectedDate state, a timestamp in ticks
    rnForwardDisabled, \* `disabled` of the forward button as last rendered
    \* ---- SpecViews: the SwiftUI views
    ui,              \* the @State properties of the views
    loads,           \* the view tasks in progress
    \* ---- SpecDates: FoodLogView's date selection
    selectedDate,    \* FoodLogView @State selectedDate, in days before today
    foodLogTasks,    \* the tasks created by FoodLogView.loadFoodLogs
    \* ---- SpecLevel: the level shown for a list of achievements
    levelInput,      \* the points of the achievements both clients hold
    levelShown,      \* what the two clients display for them, None before
    \* ---- SpecConvert: NutritionAdviceView.convertToFoodLogItems
    convLogs,        \* the JSON of the fetched logs: a list of lists of foods
    convItems        \* the [FoodLogItem] returned for them, None before

respVars == <<resp, respU, overload, iosOut, rnOut, uploadOut>>
iosVars  == <<authToken, isAuthenticated, currentUser, isLoading, errorMessage,
              authFlow, meTasks, callTasks, sent, lastReq, lastOutcome, terminated>>
rnVars   == <<rnToken, rnUser, rnFoodLogs, rnTodayStats, rnAdvice, rnMealResult,
              rnSent, rnLastReq, rnOutcome, rnProfile, rnAchievements,
              rnNow, rnSelectedDate, rnForwardDisabled>>
rnProfileVars == <<rnProfile, rnAchievements>>
rnDateVars == <<rnNow, rnSelectedDate, rnForwardDisabled>>
dateVars == <<selectedDate, foodLogTasks>>
levelVars == <<levelInput, levelShown>>
convVars == <<convLogs, convItems>>
viewVars == <<ui, loads, dateVars, levelVars, convVars>>
vars     == <<respVars, iosVars, rnVars, viewVars>>

(***************************************************************************)
(* Optionals and strings.  A string is a sequence of characters, so that   *)
(* interpolation, concatenation and "contains" are computed, not assumed.  *)
(***************************************************************************)
None    == <<>>
Some(x) == <<x>>
IsSome(o) == Len(o) = 1
Get(o)  == o[1]

S_ServerErrorPrefix == <<"S","e","r","v","e","r"," ","e","r","r","o","r",":"," ">>
S_InvalidURL == <<"I","n","v","a","l","i","d"," ","U","R","L">>
S_NotAuthenticated == <<"N","o","t"," ","a","u","t","h","e","n","t","i","c","a","t","e","d">>
S_InvalidResponse == <<"I","n","v","a","l","i","d"," ","r","e","s","p","o","n","s","e">>
S_APIRequestFailed == <<"A","P","I"," ","r","e","q","u","e","s","t"," ","f","a","i","l","e","d">>
S_TokenExpired == <<"T","o","k","e","n"," ","e","x","p","i","r","e","d">>
S_ObjectObject == <<"[","o","b","j","e","c","t"," ","O","b","j","e","c","t","]">>
S_Bearer == <<"B","e","a","r","e","r"," ">>
S_null == <<"n","u","l","l">>
S_NetworkRequestFailed == <<"N","e","t","w","o","r","k"," ","r","e","q","u","e","s","t"," ","f","a","i","l","e","d">>
\* Texts produced by the platform, not by this repository: one opaque symbol each.
S_URLErrorText      == <<"<URLError.localizedDescription>">>
S_DecodingErrorText == <<"<DecodingError.localizedDescription>">>
S_SyntaxErrorText   == <<"<SyntaxError.message>">>
S_TypeErrorText     == <<"<TypeError.message>">>
S_ReferenceErrorText == <<"<ReferenceError.message>">>

DigitChars == <<"0","1","2","3","4","5","6","7","8","9">>

RECURSIVE IntToString(_)
\* Swift "\(code)" / JS String(n) for a non-negative integer: decimal digits.
IntToString(n) ==
    IF n < 10 THEN <<DigitChars[n + 1]>>
    ELSE IntToString(n \div 10) \o <<DigitChars[(n % 10) + 1]>>

Contains(s, sub) ==
    \E i \in 0..(Len(s) - Len(sub)) : SubSeq(s, i + 1, i + Len(sub)) = sub

(***************************************************************************)
(* HTTP responses.  A body is abstracted to what the decoders look at:     *)
(* whether it parses as JSON, its top-level kind, its "detail" member and  *)
(* which of the client's model types it is shaped as.                      *)
(***************************************************************************)
Tok1 == <<"t","1">>
Tok2 == <<"t","2">>
Tokens == {Tok1, Tok2}
Alice == <<"a","l","i","c","e">>
Usernames == {Alice}

NoDetail        == [kind |-> "absent", s |-> <<>>]
StringDetail(x) == [kind |-> "string", s |-> x]
ArrayDetail     == [kind |-> "array",  s |-> <<>>]   \* e.g. a validation-error list

DetailStrings == {<<>>, S_TokenExpired}

Shapes == {"User", "Token", "FoodLogs", "Achievements", "UserProfile",
           "Advice", "Meal", "SaveResp", "Upload", "Dict", "other"}

Body(json, detail, shape, str, items) ==
    [json |-> json, detail |-> detail, shape |-> shape, str |-> str, items |-> items]

MalformedBody == Body("malformed", NoDetail, "other", <<>>, <<>>)
NullBody      == Body("null",      NoDetail, "other", <<>>, <<>>)
EmptyObject   == Body("object",    NoDetail, "other", <<>>, <<>>)
OtherArray    == Body("array",     NoDetail, "other", <<>>, <<>>)
DetailBody(d) == Body("object",    d,        "other", <<>>, <<>>)

\* The JSON kind of a well-shaped value of each model type.
JsonKindOf(shape) == IF shape \in {"FoodLogs", "Achievements"} THEN "array" ELSE "object"

\* Well-shaped bodies of type U (payload: a token, a username, or list items).
ShapedBodies(U) ==
    CASE U = "Token"    -> {Body("object", NoDetail, U, t, <<>>) : t \in Tokens}
      [] U = "User"     -> {Body("object", NoDetail, U, u, <<>>) : u \in Usernames}
      [] U = "FoodLogs" -> {Body("array",  NoDetail, U, <<>>, it) : it \in {<<>>, <<250>>}}
      [] OTHER          -> {Body(JsonKindOf(U), NoDetail, U, <<>>, <<>>)}

ErrorBodies ==
    {MalformedBody, NullBody, EmptyObject, OtherArray, DetailBody(ArrayDetail)}
    \cup {DetailBody(StringDetail(x)) : x \in DetailStrings}

BodiesFor(U) == ErrorBodies \cup ShapedBodies(U)

Statuses == {200, 201, 202, 204, 401, 500}

HttpResponse(status, body) == [transport |-> "ok", isHTTP |-> TRUE, status |-> status, body |-> body]
\* URLSession.data(for:) throwing / fetch rejecting: no response at all.
TransportFailure == [transport |-> "error", isHTTP |-> FALSE, status |-> 0, body |-> MalformedBody]

\* Every request goes to an https URL, for which URLSession only ever
\* delivers an HTTPURLResponse.
ResponsesFor(U) ==
    {HttpResponse(s, b) : s \in Statuses, b \in BodiesFor(U)} \cup {TransportFailure}

\* The answers the server side gives in the two state machines: one of each
\* class the clients tell apart (decodable success, success status with an
\* undecodable or wrongly-shaped body, error with and without a detail
\* string, no response at all).
ServerAnswers(U) ==
    {HttpResponse(200, b) : b \in ShapedBodies(U) \cup {EmptyObject, MalformedBody}}
    \cup {HttpResponse(401, DetailBody(StringDetail(S_TokenExpired))),
          HttpResponse(500, MalformedBody),
          TransportFailure}

(***************************************************************************)
(* iOS: NetworkError and the outcome of a call.                            *)
(***************************************************************************)
\* enum NetworkError plus the two foreign errors performRequest rethrows.
NetworkError(case, code, message) == [case |-> case, code |-> code, message |-> message]

errorDescription(e) ==
    CASE e.case = "invalidURL"       -> S_InvalidURL
      [] e.case = "notAuthenticated" -> S_NotAuthenticated
      [] e.case = "invalidResponse"  -> S_InvalidResponse
      [] e.case = "serverError"      -> S_ServerErrorPrefix \o IntToString(e.code)
      [] e.case = "apiError"         -> e.message
      [] e.case = "URLError"         -> S_URLErrorText
      [] OTHER                       -> S_DecodingErrorText

\* error.localizedDescription as the callers read it.
localizedDescription(e) == errorDescription(e)

NoValue == [shape |-> "other", str |-> <<>>, items |-> <<>>]

Thrown(e)  == [ok |-> FALSE, error |-> e, value |-> NoValue]
Returned(v) == [ok |-> TRUE, error |-> NetworkError("none", 0, <<>>), value |-> v]

\* JSONDecoder().decode(U.self, from: data)
Decodes(body, U) == body.json \in {"object", "array"} /\ body.shape = U
Decoded(body) == [shape |-> body.shape, str |-> body.str, items |-> body.items]

\* try? JSONDecoder().decode(APIError.self, from: data)
DecodesAPIError(body) == body.json = "object" /\ body.detail.kind = "string"

IsSuccessStatusMutant(status) == status \in 200..299
IsSuccessStatus(status) == status = 200 \/ status = 201

serverErrorMutant(body, status) == NetworkError("serverError", 0, <<>>)
errorFromBody(body, status) ==
    IF DecodesAPIError(body)
    THEN NetworkError("apiError", 0, body.detail.s)
    ELSE NetworkError("serverError", status, <<>>)

\* performRequest<T, U> from the URLSession await to the end.
performRequestResponse(r, U) ==
    IF r.transport = "error" THEN Thrown(NetworkError("URLError", 0, <<>>))
    ELSE IF ~r.isHTTP THEN Thrown(NetworkError("invalidResponse", 0, <<>>))
    ELSE IF IsSuccessStatus(r.status)
         THEN IF Decodes(r.body, U) THEN Returned(Decoded(r.body))
              ELSE Thrown(NetworkError("DecodingError", 0, <<>>))
         ELSE Thrown(errorFromBody(r.body, r.status))

\* performRequest<U> with a [String: Any] body, same part.
performRequestAnyResponse(r, U) ==
    IF r.transport = "error" THEN Thrown(NetworkError("URLError", 0, <<>>))
    ELSE IF ~r.isHTTP THEN Thrown(NetworkError("invalidResponse", 0, <<>>))
    ELSE IF r.status = 200 \/ r.status = 201
         THEN IF Decodes(r.body, U) THEN Returned(Decoded(r.body))
              ELSE Thrown(NetworkError("DecodingError", 0, <<>>))
         ELSE IF DecodesAPIError(r.body)
              THEN Thrown(NetworkError("apiError", 0, r.body.detail.s))
              ELSE Thrown(NetworkError("serverError", r.status, <<>>))

\* uploadImage from the URLSession await to the end.
uploadImageResponse(r) ==
    IF r.transport = "error" THEN Thrown(NetworkError("URLError", 0, <<>>))
    ELSE IF ~r.isHTTP THEN Thrown(NetworkError("invalidResponse", 0, <<>>))
    ELSE IF r.status = 200
         THEN IF Decodes(r.body, "Upload") THEN Returned(Decoded(r.body))
              ELSE Thrown(NetworkError("DecodingError", 0, <<>>))
         ELSE Thrown(NetworkError("serverError", r.status, <<>>))

(***************************************************************************)
(* React Native: apiRequest from the fetch await to the end.               *)
(***************************************************************************)
JsError(name, message) == [name |-> name, message |-> message]
JsThrown(e)   == [ok |-> FALSE, error |-> e, data |-> NullBody]
JsReturned(d) == [ok |-> TRUE, error |-> JsError("none", <<>>), data |-> d]

\* response.ok
responseOk(status) == status \in 200..299

\* data.detail || 'API request failed', then new Error(...).message
detailOrDefaultMutant(data) == S_APIRequestFailed
detailOrDefault(data) ==
    CASE data.detail.kind = "string" /\ data.detail.s # <<>> -> data.detail.s
      [] data.detail.kind = "array"                          -> S_ObjectObject
      [] OTHER                                               -> S_APIRequestFailed

apiRequest(r) ==
    IF r.transport = "error" THEN JsThrown(JsError("TypeError", S_NetworkRequestFailed))
    ELSE IF r.body.json = "malformed" THEN JsThrown(JsError("SyntaxError", S_SyntaxErrorText))
    ELSE IF ~responseOk(r.status)
         THEN IF r.body.json = "null"
              THEN JsThrown(JsError("TypeError", S_TypeErrorText))
              ELSE JsThrown(JsError("Error", detailOrDefault(r.body)))
         ELSE JsReturned(r.body)

(***************************************************************************)
(* SpecResp: one HTTP response handed to both clients.                     *)
(***************************************************************************)
\* (overload, U) pairs as the NetworkManager methods use them: calls that
\* pass an Encodable body resolve to performRequest<T, U>, calls without a
\* body to the [String: Any] overload; uploadImage ("multipart") handles its
\* response itself.
RespCallers == {<<"codable", "Token">>, <<"codable", "SaveResp">>,
                <<"any", "User">>, <<"any", "FoodLogs">>,
                <<"multipart", "Upload">>}

InitResp ==
    /\ \E c \in RespCallers : overload = c[1] /\ respU = c[2]
    /\ resp \in ResponsesFor(respU)
    /\ iosOut = None
    /\ rnOut = None
    /\ uploadOut = None

ParkedResp ==
    /\ overload = "codable" /\ respU = "Token"
    /\ resp = TransportFailure
    /\ iosOut = None
    /\ rnOut = None
    /\ uploadOut = None

performRequestOutcome(ov, r, U) ==
    IF ov = "codable" THEN performRequestResponse(r, U) ELSE performRequestAnyResponse(r, U)

IOSReceive ==
    /\ overload # "multipart"
    /\ iosOut = None
    /\ iosOut' = Some(performRequestOutcome(overload, resp, respU))
    /\ UNCHANGED <<resp, respU, overload, rnOut, uploadOut>>
    /\ UNCHANGED <<iosVars, rnVars, viewVars>>

RNReceive ==
    /\ rnOut = None
    /\ rnOut' = Some(apiRequest(resp))
    /\ UNCHANGED <<resp, respU, overload, iosOut, uploadOut>>
    /\ UNCHANGED <<iosVars, rnVars, viewVars>>

UploadReceive ==
    /\ overload = "multipart"
    /\ uploadOut = None
    /\ uploadOut' = Some(uploadImageResponse(resp))
    /\ UNCHANGED <<resp, respU, overload, iosOut, rnOut>>
    /\ UNCHANGED <<iosVars, rnVars, viewVars>>

NextResp == IOSReceive \/ RNReceive \/ UploadReceive

(***************************************************************************)
(* Spec: the iOS NetworkManager.                                           *)
(***************************************************************************)
MaxMe    == 1     \* getCurrentUser tasks of checkAuthStatus alive at once
MaxCalls == 1     \* view tasks alive at once
MaxSent  == 3     \* requests handed to URLSession in one run

baseURL == "https://nutai-production.up.railway.app"

\* URL(string: "\(baseURL)\(endpoint)"): with the iOS 17 SDK the project
\* requires, a string is rejected only when it is empty.
urlParses(endpoint) == baseURL # "" \/ endpoint # ""

\* The NetworkManager methods the views call, with what each passes to
\* performRequest: endpoint, method, requiresAuth, the currentUser guard in
\* front of it, the overload it resolves to and the type U it decodes.
Ops == {"analyzeMeal", "getNutritionAdvice", "getPersonalizedNutritionAdvice",
        "saveFoodLog", "getUserFoodLogs", "saveUserProfile", "getUserProfile",
        "getUserAchievements", "uploadImage"}

OpRec(endpoint, method, requiresAuth, needsUser, ov, U) ==
    [endpoint |-> endpoint, method |-> method, requiresAuth |-> requiresAuth,
     needsUser |-> needsUser, overload |-> ov, U |-> U]

OpInfo(op) ==
    CASE op = "analyzeMeal" ->
            OpRec("/ai/analyze-meal", "POST", FALSE, FALSE, "codable", "Meal")
      [] op = "getNutritionAdvice" ->
            OpRec("/ai/nutrition-advice", "POST", FALSE, FALSE, "any", "Advice")
      [] op = "getPersonalizedNutritionAdvice" ->
            OpRec("/ai/personalized-nutrition-advice", "POST", TRUE, TRUE, "any", "Advice")
      [] op = "saveFoodLog" ->
            OpRec("/food-logs", "POST", TRUE, TRUE, "codable", "SaveResp")
      [] op = "getUserFoodLogs" ->
            OpRec("/users/{userId}/food-logs", "GET", TRUE, TRUE, "any", "FoodLogs")
      [] op = "saveUserProfile" ->
            OpRec("/users/profile", "POST", TRUE, FALSE, "codable", "Dict")
      [] op = "getUserProfile" ->
            OpRec("/users/{userId}/profile", "GET", TRUE, TRUE, "any", "UserProfile")
      [] op = "getUserAchievements" ->
            OpRec("/users/{userId}/achievements", "GET", TRUE, TRUE, "any", "Achievements")
      [] op = "uploadImage" ->
            OpRec("/upload-user-image", "POST", TRUE, FALSE, "multipart", "Upload")
      [] op = "getCurrentUser" ->
            OpRec("/auth/me", "GET", TRUE, FALSE, "any", "User")
      [] op = "login" ->
            OpRec("/auth/login", "POST", FALSE, FALSE, "codable", "Token")
      [] OTHER ->  \* register
            OpRec("/auth/register", "POST", FALSE, FALSE, "codable", "User")

Request(endpoint, method, authorization, contentType) ==
    [endpoint |-> endpoint, method |-> method,
     authorization |-> authorization, contentType |-> contentType]
NoRequest == Request("none", "none", None, "none")

\* "Bearer \(token)"
bearerMutant(token) == S_Bearer
bearer(token) == S_Bearer \o token

Prepared(req)  == [ok |-> TRUE,  error |-> NetworkError("none", 0, <<>>), request |-> req]
Refused(e)     == [ok |-> FALSE, error |-> e, request |-> NoRequest]

\* performRequest (either overload) up to the URLSession await.
performRequestPrepareMutant(endpoint, method, requiresAuth, token) ==
    Prepared(Request(endpoint, method,
                     IF token = None THEN None ELSE Some(bearer(Get(token))),
                     "application/json"))
performRequestPrepare(endpoint, method, requiresAuth, token) ==
    IF ~urlParses(endpoint) THEN Refused(NetworkError("invalidURL", 0, <<>>))
    ELSE IF requiresAuth
         THEN IF token = None
              THEN Refused(NetworkError("notAuthenticated", 0, <<>>))
              ELSE Prepared(Request(endpoint, method, Some(bearer(Get(token))),
                                    "application/json"))
         ELSE Prepared(Request(endpoint, method, None, "application/json"))

\* uploadImage up to the URLSession await.
uploadImagePrepare(token) ==
    IF token = None
    THEN Refused(NetworkError("notAuthenticated", 0, <<>>))
    ELSE Prepared(Request("/upload-user-image", "POST", Some(bearer(Get(token))),
                          "multipart/form-data"))

\* The foodLog arguments a view passes (number of FoodLogItem values): only
\* the two advice methods take one.
FoodLogArgs(op) ==
    IF op \in {"getNutritionAdvice", "getPersonalizedNutritionAdvice"} THEN {0, 1} ELSE {0}

\* JSONSerialization.data(withJSONObject: body) in the [String: Any] overload:
\* a body that holds FoodLogItem structs is not a JSON object, for which
\* Foundation raises NSInvalidArgumentException; Swift's `try` does not catch
\* it and the process ends.
isValidJSONObject(op, foodLog) == ~(OpInfo(op).overload = "any" /\ foodLog > 0)

\* The result of a call that ended the process.
Crashed == [ok |-> FALSE, error |-> NetworkError("NSException", 0, <<>>), value |-> NoValue]

\* The synchronous part of a NetworkManager method: its own guards, then
\* performRequest's.
methodPrepare(op, user, token) ==
    IF OpInfo(op).needsUser /\ user = None
    THEN Refused(NetworkError("notAuthenticated", 0, <<>>))
    ELSE IF op = "uploadImage" THEN uploadImagePrepare(token)
    ELSE performRequestPrepare(OpInfo(op).endpoint, OpInfo(op).method,
                               OpInfo(op).requiresAuth, token)

methodResponse(op, r) ==
    IF op = "uploadImage" THEN uploadImageResponse(r)
    ELSE performRequestOutcome(OpInfo(op).overload, r, OpInfo(op).U)

\* How a call ended: which method, with which token in store when it
\* started, the request it handed to URLSession (if any) and the result.
Outcome(op, token, req, res) ==
    [op |-> op, token |-> token, request |-> req,
     ok |-> res.ok, error |-> res.error, value |-> res.value]
NoOutcome == Outcome("none", None, NoRequest, Thrown(NetworkError("none", 0, <<>>)))

\* foodLog is the number of items of the call's foodLog argument (0 for the
\* methods that take none).
IdleTask == [pc |-> "idle", op |-> "none", token |-> None, request |-> NoRequest,
             foodLog |-> 0]
\* The register/login call in progress; token is login()'s local `token`
\* (the decoded Token) and user is register()'s local `user` (the decoded
\* User), NoValue before the response that binds them.
IdleFlow == [pc |-> "idle", via |-> "none", token |-> NoValue, user |-> NoValue]

\* State after NetworkManager.init(): checkAuthStatus has run against
\* whatever token an earlier run left in UserDefaults.
InitIOS ==
    /\ authToken \in {None} \cup {Some(t) : t \in Tokens}
    /\ isAuthenticated = (authToken # None)
    /\ currentUser = None
    /\ isLoading = FALSE
    /\ errorMessage = None
    /\ authFlow = IdleFlow
    /\ meTasks = [i \in 1..MaxMe |->
                    IF i = 1 /\ authToken # None
                    THEN [IdleTask EXCEPT !.pc = "start", !.op = "getCurrentUser"]
                    ELSE IdleTask]
    /\ callTasks = [i \in 1..MaxCalls |-> IdleTask]
    /\ sent = 0
    /\ lastReq = NoRequest
    /\ lastOutcome = NoOutcome
    /\ terminated = FALSE

ParkedIOS ==
    /\ authToken = None
    /\ isAuthenticated = FALSE
    /\ currentUser = None
    /\ isLoading = FALSE
    /\ errorMessage = None
    /\ authFlow = IdleFlow
    /\ meTasks = [i \in 1..MaxMe |-> IdleTask]
    /\ callTasks = [i \in 1..MaxCalls |-> IdleTask]
    /\ sent = 0
    /\ lastReq = NoRequest
    /\ lastOutcome = NoOutcome
    /\ terminated = FALSE

\* Token.accessToken (CodingKeys: "access_token")
accessTokenMutant(token) == <<>>
accessToken(token) == token.str

\* What logout() leaves in authToken, isAuthenticated and currentUser.
logoutMutant == [authToken |-> None, isAuthenticated |-> FALSE, currentUser |-> currentUser]
logout == [authToken |-> None, isAuthenticated |-> FALSE, currentUser |-> None]

DoLogout ==
    /\ authToken' = logout.authToken
    /\ isAuthenticated' = logout.isAuthenticated
    /\ currentUser' = logout.currentUser

\* A new task takes the first free slot (which slot is immaterial).
FreeSlots(tasks) ==
    LET free == {i \in DOMAIN tasks : tasks[i].pc = "idle"} IN
    {i \in free : \A j \in free : i <= j}

\* ContentView.onAppear -> checkAuthStatus(): re-derive isAuthenticated and,
\* when a token is stored, spawn a task that will call getCurrentUser.
CheckAuthStatus ==
    /\ isAuthenticated' = (authToken # None)
    /\ IF authToken # None
       THEN \E i \in FreeSlots(meTasks) :
              meTasks' = [meTasks EXCEPT ![i] =
                            [IdleTask EXCEPT !.pc = "start", !.op = "getCurrentUser"]]
       ELSE UNCHANGED meTasks
    /\ UNCHANGED <<authToken, currentUser, isLoading, errorMessage, authFlow,
                   callTasks, sent, lastReq, lastOutcome>>
    /\ ~terminated /\ UNCHANGED terminated
    /\ UNCHANGED <<respVars, rnVars, viewVars>>

\* The spawned task runs getCurrentUser up to its await: performRequest builds
\* the request from the token stored now, or throws and the catch logs out.
MeStart(i) ==
    /\ meTasks[i].pc = "start"
    /\ LET p == methodPrepare("getCurrentUser", currentUser, authToken) IN
       IF p.ok
       THEN /\ sent < MaxSent
            /\ meTasks' = [meTasks EXCEPT ![i] =
                             [pc |-> "wait", op |-> "getCurrentUser",
                              token |-> authToken, request |-> p.request,
                              foodLog |-> 0]]
            /\ sent' = sent + 1
            /\ lastReq' = p.request
            /\ UNCHANGED <<authToken, isAuthenticated, currentUser, lastOutcome>>
       ELSE /\ DoLogout
            /\ meTasks' = [meTasks EXCEPT ![i] = IdleTask]
            /\ lastOutcome' = Outcome("getCurrentUser", authToken, NoRequest, Thrown(p.error))
            /\ UNCHANGED <<sent, lastReq>>
    /\ UNCHANGED <<isLoading, errorMessage, authFlow, callTasks>>
    /\ ~terminated /\ UNCHANGED terminated
    /\ UNCHANGED <<respVars, rnVars, viewVars>>

\* GET /auth/me answers a task of checkAuthStatus.
MeDeliver(i, r) ==
    /\ meTasks[i].pc = "wait"
    /\ LET out == methodResponse("getCurrentUser", r) IN
       /\ IF out.ok
          THEN /\ currentUser' = Some(out.value.str)
               /\ UNCHANGED <<authToken, isAuthenticated>>
          ELSE DoLogout
       /\ lastOutcome' = Outcome("getCurrentUser", meTasks[i].token, meTasks[i].request, out)
    /\ meTasks' = [meTasks EXCEPT ![i] = IdleTask]
    /\ UNCHANGED <<isLoading, errorMessage, authFlow, callTasks, sent, lastReq>>
    /\ ~terminated /\ UNCHANGED terminated
    /\ UNCHANGED <<respVars, rnVars, viewVars>>

\* A request built by performRequest without requiresAuth.
PlainRequest(op) == Request(OpInfo(op).endpoint, OpInfo(op).method, None, "application/json")

\* login(): the part up to the await of POST /auth/login.  `via` is the caller.
\* performRequest cannot throw before the await here: the URL parses and
\* requiresAuth is false.
StartLogin(via, user) ==
    LET p == methodPrepare("login", currentUser, authToken) IN
    /\ p.ok
    /\ sent < MaxSent
    /\ isLoading' = TRUE
    /\ errorMessage' = None
    /\ authFlow' = [pc |-> "login_wait", via |-> via, token |-> NoValue, user |-> user]
    /\ sent' = sent + 1
    /\ lastReq' = p.request

\* AuthView "Sign In": shown while not authenticated, disabled while loading.
Login ==
    /\ ~isAuthenticated /\ ~isLoading /\ authFlow.pc = "idle"
    /\ StartLogin("login", NoValue)
    /\ UNCHANGED <<authToken, isAuthenticated, currentUser, meTasks, callTasks, lastOutcome>>
    /\ ~terminated /\ UNCHANGED terminated
    /\ UNCHANGED <<respVars, rnVars, viewVars>>

\* AuthView "Create Account": register() up to the await of POST /auth/register.
Register ==
    /\ ~isAuthenticated /\ ~isLoading /\ authFlow.pc = "idle"
    /\ sent < MaxSent
    /\ LET p == methodPrepare("register", currentUser, authToken) IN
       /\ p.ok
       /\ isLoading' = TRUE
       /\ errorMessage' = None
       /\ authFlow' = [pc |-> "register_wait", via |-> "register", token |-> NoValue,
                        user |-> NoValue]
       /\ sent' = sent + 1
       /\ lastReq' = p.request
    /\ UNCHANGED <<authToken, isAuthenticated, currentUser, meTasks, callTasks, lastOutcome>>
    /\ ~terminated /\ UNCHANGED terminated
    /\ UNCHANGED <<respVars, rnVars, viewVars>>

\* POST /auth/register answers: on success register() calls login(), on
\* failure it reports the error and ends.
RegisterDeliverMutant(r) ==
    /\ authFlow.pc = "register_wait"
    /\ StartLogin("register", methodResponse("register", r).value) /\ UNCHANGED lastOutcome
    /\ UNCHANGED <<authToken, isAuthenticated, currentUser, meTasks, callTasks>>
    /\ ~terminated /\ UNCHANGED terminated
    /\ UNCHANGED <<respVars, rnVars, viewVars>>
RegisterDeliver(r) ==
    /\ authFlow.pc = "register_wait"
    /\ LET out == methodResponse("register", r) IN
       IF out.ok
       THEN StartLogin("register", out.value) /\ UNCHANGED lastOutcome
       ELSE /\ errorMessage' = Some(localizedDescription(out.error))
            /\ isLoading' = FALSE
            /\ authFlow' = IdleFlow
            /\ lastOutcome' = Outcome("register", authToken, PlainRequest("register"), out)
            /\ UNCHANGED <<sent, lastReq>>
    /\ UNCHANGED <<authToken, isAuthenticated, currentUser, meTasks, callTasks>>
    /\ ~terminated /\ UNCHANGED terminated
    /\ UNCHANGED <<respVars, rnVars, viewVars>>

\* POST /auth/login answers: on success the token is stored, isAuthenticated
\* set and getCurrentUser called (its request leaves with the new token); on
\* failure login() reports the error and ends (and register() after it).
LoginDeliverMutant(r) ==
    /\ authFlow.pc = "login_wait"
    /\ LET out == methodResponse("login", r) IN
       IF out.ok
       THEN LET stored == Some(accessToken(out.value))
                p == methodPrepare("getCurrentUser", currentUser, stored) IN
            /\ sent < MaxSent
            /\ authToken' = stored
            /\ UNCHANGED isAuthenticated
            /\ p.ok
            /\ authFlow' = [authFlow EXCEPT !.pc = "me_wait", !.token = out.value]
            /\ sent' = sent + 1
            /\ lastReq' = p.request
            /\ UNCHANGED <<currentUser, isLoading, errorMessage, lastOutcome>>
       ELSE /\ errorMessage' = Some(localizedDescription(out.error))
            /\ isLoading' = FALSE
            /\ authFlow' = IdleFlow
            /\ lastOutcome' = Outcome("login", authToken, PlainRequest("login"), out)
            /\ UNCHANGED <<authToken, isAuthenticated, currentUser, sent, lastReq>>
    /\ UNCHANGED <<meTasks, callTasks>>
    /\ ~terminated /\ UNCHANGED terminated
    /\ UNCHANGED <<respVars, rnVars, viewVars>>
LoginDeliver(r) ==
    /\ authFlow.pc = "login_wait"
    /\ LET out == methodResponse("login", r) IN
       IF out.ok
       THEN LET stored == Some(accessToken(out.value))
                p == methodPrepare("getCurrentUser", currentUser, stored) IN
            /\ sent < MaxSent
            /\ authToken' = stored
            /\ isAuthenticated' = TRUE
            /\ p.ok
            /\ authFlow' = [authFlow EXCEPT !.pc = "me_wait", !.token = out.value]
            /\ sent' = sent + 1
            /\ lastReq' = p.request
            /\ UNCHANGED <<currentUser, isLoading, errorMessage, lastOutcome>>
       ELSE /\ errorMessage' = Some(localizedDescription(out.error))
            /\ isLoading' = FALSE
            /\ authFlow' = IdleFlow
            /\ lastOutcome' = Outcome("login", authToken, PlainRequest("login"), out)
            /\ UNCHANGED <<authToken, isAuthenticated, currentUser, sent, lastReq>>
    /\ UNCHANGED <<meTasks, callTasks>>
    /\ ~terminated /\ UNCHANGED terminated
    /\ UNCHANGED <<respVars, rnVars, viewVars>>

\* GET /auth/me answers login()'s getCurrentUser; login() (and register()
\* after it) then ends with isLoading = false.
LoginMeDeliver(r) ==
    /\ authFlow.pc = "me_wait"
    /\ LET out == methodResponse("getCurrentUser", r) IN
       /\ IF out.ok
          THEN /\ currentUser' = Some(out.value.str)
               /\ UNCHANGED <<authToken, isAuthenticated>>
          ELSE DoLogout
       /\ lastOutcome' = Outcome("getCurrentUser", Some(accessToken(authFlow.token)),
                                 Request("/auth/me", "GET",
                                         Some(bearer(accessToken(authFlow.token))),
                                         "application/json"), out)
    /\ isLoading' = FALSE
    /\ authFlow' = IdleFlow
    /\ UNCHANGED <<errorMessage, meTasks, callTasks, sent, lastReq>>
    /\ ~terminated /\ UNCHANGED terminated
    /\ UNCHANGED <<respVars, rnVars, viewVars>>

\* "Sign Out" in ProfileView / SettingsView, shown while authenticated.
Logout ==
    /\ isAuthenticated
    /\ DoLogout
    /\ UNCHANGED <<isLoading, errorMessage, authFlow, meTasks, callTasks,
                   sent, lastReq, lastOutcome>>
    /\ ~terminated /\ UNCHANGED terminated
    /\ UNCHANGED <<respVars, rnVars, viewVars>>

\* A view of the tab bar (shown while authenticated) spawns a task that
\* will call a NetworkManager method.
SpawnCall(op, n) ==
    /\ isAuthenticated
    /\ \E i \in FreeSlots(callTasks) :
         callTasks' = [callTasks EXCEPT ![i] =
                         [IdleTask EXCEPT !.pc = "start", !.op = op, !.foodLog = n]]
    /\ UNCHANGED <<authToken, isAuthenticated, currentUser, isLoading, errorMessage,
                   authFlow, meTasks, sent, lastReq, lastOutcome>>
    /\ ~terminated /\ UNCHANGED terminated
    /\ UNCHANGED <<respVars, rnVars, viewVars>>

\* The task runs the method up to its await: it throws, or the body cannot
\* be serialized and the process ends, or it hands a request to URLSession.
CallStart(i) ==
    /\ callTasks[i].pc = "start"
    /\ ~terminated
    /\ LET op == callTasks[i].op
           p  == methodPrepare(op, currentUser, authToken) IN
       IF ~p.ok
       THEN /\ callTasks' = [callTasks EXCEPT ![i] = IdleTask]
            /\ lastOutcome' = Outcome(op, authToken, NoRequest, Thrown(p.error))
            /\ UNCHANGED <<sent, lastReq, terminated>>
       ELSE IF ~isValidJSONObject(op, callTasks[i].foodLog)
       THEN /\ terminated' = TRUE
            /\ lastOutcome' = Outcome(op, authToken, NoRequest, Crashed)
            /\ UNCHANGED <<callTasks, sent, lastReq>>
       ELSE /\ sent < MaxSent
            /\ callTasks' = [callTasks EXCEPT ![i] =
                               [pc |-> "wait", op |-> op,
                                token |-> authToken, request |-> p.request,
                                foodLog |-> callTasks[i].foodLog]]
            /\ sent' = sent + 1
            /\ lastReq' = p.request
            /\ UNCHANGED <<lastOutcome, terminated>>
    /\ UNCHANGED <<authToken, isAuthenticated, currentUser, isLoading, errorMessage,
                   authFlow, meTasks>>
    /\ UNCHANGED <<respVars, rnVars, viewVars>>

\* The response to a view's call arrives; the method returns or throws.
CallDeliverMutant(i, r) ==
    /\ callTasks[i].pc = "wait"
    /\ lastOutcome' = Outcome(callTasks[i].op, callTasks[i].token, callTasks[i].request,
                              methodResponse(callTasks[i].op, r))
    /\ callTasks' = [callTasks EXCEPT ![i] = IdleTask]
    /\ IF lastOutcome'.ok THEN UNCHANGED <<authToken, isAuthenticated, currentUser>>
       ELSE DoLogout
    /\ UNCHANGED <<isLoading, errorMessage, authFlow, meTasks, sent, lastReq>>
    /\ ~terminated /\ UNCHANGED terminated
    /\ UNCHANGED <<respVars, rnVars, viewVars>>
CallDeliver(i, r) ==
    /\ callTasks[i].pc = "wait"
    /\ lastOutcome' = Outcome(callTasks[i].op, callTasks[i].token, callTasks[i].request,
                              methodResponse(callTasks[i].op, r))
    /\ callTasks' = [callTasks EXCEPT ![i] = IdleTask]
    /\ UNCHANGED <<authToken, isAuthenticated, currentUser, isLoading, errorMessage,
                   authFlow, meTasks, sent, lastReq>>
    /\ ~terminated /\ UNCHANGED terminated
    /\ UNCHANGED <<respVars, rnVars, viewVars>>

NextIOS ==
    \/ CheckAuthStatus
    \/ \E i \in 1..MaxMe : MeStart(i)
    \/ \E i \in 1..MaxMe : \E r \in ServerAnswers("User") : MeDeliver(i, r)
    \/ Login
    \/ Register
    \/ \E r \in ServerAnswers("User") : RegisterDeliver(r)
    \/ \E r \in ServerAnswers("Token") : LoginDeliver(r)
    \/ \E r \in ServerAnswers("User") : LoginMeDeliver(r)
    \/ Logout
    \/ \E op \in Ops : \E n \in FoodLogArgs(op) : SpawnCall(op, n)
    \/ \E i \in 1..MaxCalls : CallStart(i)
    \/ \E i \in 1..MaxCalls : \E r \in ServerAnswers(OpInfo(callTasks[i].op).U) : CallDeliver(i, r)

(***************************************************************************)
(* SpecRN: the React Native screens.                                       *)
(***************************************************************************)
MaxRNSent == 3    \* fetch calls in one run

\* `Bearer ${token}`: a null token interpolates as the text "null".
jsBearer(token) == S_Bearer \o (IF token = None THEN S_null ELSE Get(token))

\* useState([]) / useState({meals: 0, calories: 0, protein: 0}) / useState(null)
EmptyList  == Body("array", NoDetail, "FoodLogs", <<>>, <<>>)
ZeroStats  == [meals |-> 0, calories |-> 0, protein |-> 0]

RnOutcome(call, token, requests, authorization, r, res) ==
    [call |-> call, token |-> token, requests |-> requests,
     authorization |-> authorization, response |-> r,
     ok |-> res.ok, error |-> res.error]
NoRnOutcome == RnOutcome("none", None, 0, None, TransportFailure,
                         JsThrown(JsError("none", <<>>)))

\* `/users/${user.username}/...` with user === null
NullUserError == JsThrown(JsError("TypeError", S_TypeErrorText))

InitRN ==
    /\ rnToken = None
    /\ rnUser = None
    /\ rnFoodLogs = EmptyList
    /\ rnTodayStats = ZeroStats
    /\ rnAdvice = None
    /\ rnMealResult = None
    /\ rnSent = 0
    /\ rnLastReq = NoRequest
    /\ rnOutcome = NoRnOutcome
    /\ rnProfile = None
    /\ rnAchievements = Body("array", NoDetail, "Achievements", <<>>, <<>>)
    /\ rnNow = 0
    /\ rnSelectedDate = 0
    /\ rnForwardDisabled = TRUE

ParkedRNState == InitRN

\* AuthContext (src/context/AuthContext.js is not part of the sources): the
\* token is set on login success and cleared on logout; what logout does to
\* `user` is not fixed by anything at hand, so both are allowed.
RNLogin(t, u) ==
    /\ rnToken = None
    /\ rnToken' = Some(t)
    /\ rnUser' = Some(u)
    /\ UNCHANGED <<rnFoodLogs, rnTodayStats, rnAdvice, rnMealResult, rnSent, rnLastReq, rnOutcome>>
    /\ UNCHANGED <<respVars, iosVars, viewVars, rnProfileVars, rnDateVars>>

RNLogout ==
    /\ rnToken # None
    /\ rnToken' = None
    /\ rnUser' \in {None, rnUser}
    /\ UNCHANGED <<rnFoodLogs, rnTodayStats, rnAdvice, rnMealResult, rnSent, rnLastReq, rnOutcome>>
    /\ UNCHANGED <<respVars, iosVars, viewVars, rnProfileVars, rnDateVars>>

RnRequest(endpoint, method, token) ==
    Request(endpoint, method, Some(jsBearer(token)), "application/json")

\* response.reduce(...) / response.forEach(...) run without throwing only on
\* an array whose elements are food logs.
IsLogArray(data) == data.json = "array" /\ data.shape = "FoodLogs"

RECURSIVE SumSeq(_)
SumSeq(xs) == IF xs = <<>> THEN 0 ELSE xs[1] + SumSeq(Tail(xs))

\* FoodLogScreen.loadFoodLogs, with the response its fetch receives.
RNLoadFoodLogs(r) ==
    /\ rnSent < MaxRNSent
    /\ IF rnUser = None
       THEN /\ rnOutcome' = RnOutcome("loadFoodLogs", rnToken, 0, None, TransportFailure, NullUserError)
            /\ UNCHANGED <<rnFoodLogs, rnSent, rnLastReq>>
       ELSE LET req == RnRequest("/users/{username}/food-logs", "GET", rnToken)
                out == apiRequest(r) IN
            /\ rnSent' = rnSent + 1
            /\ rnLastReq' = req
            /\ rnFoodLogs' = IF out.ok THEN out.data ELSE rnFoodLogs
            /\ rnOutcome' = RnOutcome("loadFoodLogs", rnToken, 1, req.authorization, r, out)
    /\ UNCHANGED <<rnToken, rnUser, rnTodayStats, rnAdvice, rnMealResult>>
    /\ UNCHANGED <<respVars, iosVars, viewVars, rnProfileVars, rnDateVars>>

\* HomeScreen.loadTodayStats, with the response its fetch receives.
RNLoadTodayStats(r) ==
    /\ rnSent < MaxRNSent
    /\ IF rnUser = None
       THEN /\ rnOutcome' = RnOutcome("loadTodayStats", rnToken, 0, None, TransportFailure, NullUserError)
            /\ UNCHANGED <<rnTodayStats, rnSent, rnLastReq>>
       ELSE LET req == RnRequest("/users/{username}/food-logs", "GET", rnToken)
                out == apiRequest(r)
                res == IF out.ok /\ ~IsLogArray(out.data)
                       THEN JsThrown(JsError("TypeError", S_TypeErrorText))
                       ELSE out IN
            /\ rnSent' = rnSent + 1
            /\ rnLastReq' = req
            /\ rnTodayStats' = IF res.ok
                               THEN [meals |-> Len(out.data.items),
                                     calories |-> SumSeq(out.data.items),
                                     protein |-> 0]
                               ELSE rnTodayStats
            /\ rnOutcome' = RnOutcome("loadTodayStats", rnToken, 1, req.authorization, r, res)
    /\ UNCHANGED <<rnToken, rnUser, rnFoodLogs, rnAdvice, rnMealResult>>
    /\ UNCHANGED <<respVars, iosVars, viewVars, rnProfileVars, rnDateVars>>

\* MealAnalysisScreen.analyzeMeal with a description and no photo selected.
RNAnalyzeMeal(r) ==
    /\ rnSent < MaxRNSent
    /\ LET req == RnRequest("/ai/analyze-meal", "POST", rnToken)
           out == apiRequest(r) IN
       /\ rnSent' = rnSent + 1
       /\ rnLastReq' = req
       /\ rnMealResult' = IF out.ok THEN Some(out.data) ELSE rnMealResult
       /\ rnOutcome' = RnOutcome("analyzeMeal", rnToken, 1, req.authorization, r, out)
    /\ UNCHANGED <<rnToken, rnUser, rnFoodLogs, rnTodayStats, rnAdvice>>
    /\ UNCHANGED <<respVars, iosVars, viewVars, rnProfileVars, rnDateVars>>

\* MealAnalysisScreen.saveMeal: returns at once without a mealResult.
RNSaveMeal(r) ==
    /\ rnSent < MaxRNSent
    /\ rnMealResult # None
    /\ IF rnUser = None \/ Get(rnMealResult).shape # "Meal"
       THEN \* user.username or mealResult.foods.map throws inside the try
            /\ rnOutcome' = RnOutcome("saveMeal", rnToken, 0, None, TransportFailure, NullUserError)
            /\ UNCHANGED <<rnMealResult, rnSent, rnLastReq>>
       ELSE LET req == RnRequest("/food-logs", "POST", rnToken)
                out == apiRequest(r) IN
            /\ rnSent' = rnSent + 1
            /\ rnLastReq' = req
            /\ rnMealResult' = IF out.ok THEN None ELSE rnMealResult
            /\ rnOutcome' = RnOutcome("saveMeal", rnToken, 1, req.authorization, r, out)
    /\ UNCHANGED <<rnToken, rnUser, rnFoodLogs, rnTodayStats, rnAdvice>>
    /\ UNCHANGED <<respVars, iosVars, viewVars, rnProfileVars, rnDateVars>>

\* NutritionAdviceScreen.loadAdvice: the food-log request, then the
\* personalized-advice request, each with the response it receives.
RNLoadAdvice(r1, r2) ==
    /\ rnSent < MaxRNSent
    /\ IF rnUser = None
       THEN /\ rnOutcome' = RnOutcome("loadAdvice", rnToken, 0, None, TransportFailure, NullUserError)
            /\ UNCHANGED <<rnAdvice, rnSent, rnLastReq>>
       ELSE LET req1 == RnRequest("/users/{username}/food-logs", "GET", rnToken)
                req2 == RnRequest("/ai/personalized-nutrition-advice", "POST", rnToken)
                out1 == apiRequest(r1)
                res1 == IF out1.ok /\ ~IsLogArray(out1.data)
                        THEN JsThrown(JsError("TypeError", S_TypeErrorText))
                        ELSE out1
                out2 == apiRequest(r2) IN
            IF ~res1.ok
            THEN /\ rnSent' = rnSent + 1
                 /\ rnLastReq' = req1
                 /\ rnOutcome' = RnOutcome("loadAdvice", rnToken, 1, req1.authorization, r1, res1)
                 /\ UNCHANGED rnAdvice
            ELSE /\ rnSent' = rnSent + 2
                 /\ rnLastReq' = req2
                 /\ rnAdvice' = IF out2.ok THEN Some(out2.data) ELSE rnAdvice
                 /\ rnOutcome' = RnOutcome("loadAdvice", rnToken, 2, req2.authorization, r2, out2)
    /\ UNCHANGED <<rnToken, rnUser, rnFoodLogs, rnTodayStats, rnMealResult>>
    /\ UNCHANGED <<respVars, iosVars, viewVars, rnProfileVars, rnDateVars>>

\* The names each screen takes from useAuth(); any other name it uses is
\* not declared anywhere, and evaluating it throws a ReferenceError.
FromUseAuth(screen) ==
    IF screen = "ProfileScreen" THEN {"user", "logout"} ELSE {"user", "token"}

\* ProfileScreen.loadProfileData: the profile request, then the achievements
\* request, each in a try of its own.  The first argument of each apiRequest
\* call reads user.username, the second `Bearer ${token}`; an exception
\* thrown there is caught like a failed request, before any fetch.
RNLoadProfileData(r1, r2) ==
    /\ rnSent < MaxRNSent
    /\ IF rnUser = None
       THEN /\ rnOutcome' = RnOutcome("loadProfileData", rnToken, 0, None, TransportFailure,
                                      NullUserError)
            /\ UNCHANGED <<rnProfile, rnAchievements, rnSent, rnLastReq>>
       ELSE IF "token" \notin FromUseAuth("ProfileScreen")
       THEN /\ rnOutcome' = RnOutcome("loadProfileData", rnToken, 0, None, TransportFailure,
                                      JsThrown(JsError("ReferenceError", S_ReferenceErrorText)))
            /\ UNCHANGED <<rnProfile, rnAchievements, rnSent, rnLastReq>>
       ELSE LET req1 == RnRequest("/users/{username}/profile", "GET", rnToken)
                req2 == RnRequest("/users/{username}/achievements", "GET", rnToken)
                out1 == apiRequest(r1)
                out2 == apiRequest(r2) IN
            /\ rnSent' = rnSent + 2
            /\ rnLastReq' = req2
            /\ rnProfile' = IF out1.ok THEN Some(out1.data) ELSE rnProfile
            /\ rnAchievements' = IF out2.ok THEN out2.data ELSE rnAchievements
            /\ rnOutcome' = RnOutcome("loadProfileData", rnToken, 2, req2.authorization, r2, out2)
    /\ UNCHANGED <<rnToken, rnUser, rnFoodLogs, rnTodayStats, rnAdvice, rnMealResult>>
    /\ UNCHANGED <<respVars, iosVars, viewVars, rnDateVars>>

NextRN ==
    \/ \E t \in Tokens, u \in Usernames : RNLogin(t, u)
    \/ RNLogout
    \/ \E r \in ServerAnswers("FoodLogs") : RNLoadFoodLogs(r)
    \/ \E r \in ServerAnswers("FoodLogs") : RNLoadTodayStats(r)
    \/ \E r \in ServerAnswers("Meal") : RNAnalyzeMeal(r)
    \/ \E r \in ServerAnswers("SaveResp") : RNSaveMeal(r)
    \/ \E r1 \in ServerAnswers("FoodLogs"), r2 \in ServerAnswers("Advice") : RNLoadAdvice(r1, r2)
    \/ \E r1 \in ServerAnswers("UserProfile"), r2 \in ServerAnswers("Achievements") :
          RNLoadProfileData(r1, r2)

(***************************************************************************)
(* SpecViews: the SwiftUI views on top of the NetworkManager methods.      *)
(***************************************************************************)
MaxLoads    == 1     \* view tasks alive at once
MaxViewSent == 2     \* requests handed to URLSession in one run
MaxFoodLogTasks == 2 \* loadFoodLogs tasks alive at once
MaxDaysAgo  == 1     \* how far back the selected date goes

\* A decoded empty array, the initial value of the list properties.
EmptyArray(U) == [shape |-> U, str |-> <<>>, items |-> <<>>]

\* The @State properties right after the views are created.
InitialUI ==
    [HomeView |-> [achievements |-> EmptyArray("Achievements"),
                   todaysFoodLogs |-> EmptyArray("FoodLogs"),
                   isLoading |-> FALSE],
     FoodLogView |-> [foodLogs |-> EmptyArray("FoodLogs"), isLoading |-> FALSE],
     ProfileView |-> [userProfile |-> None,
                      achievements |-> EmptyArray("Achievements"),
                      isLoading |-> FALSE],
     MealAnalysisView |-> [selectedImage |-> FALSE, userInput |-> <<>>,
                           mealResponse |-> None, isAnalyzing |-> FALSE,
                           errorMessage |-> None],
     NutritionAdviceView |-> [nutritionAdvice |-> None, isLoading |-> FALSE,
                              errorMessage |-> None,
                              foodLogs |-> EmptyArray("FoodLogs")]]

\* A view task: the function it runs and the positions of its (at most two)
\* network calls, a and b.
IdleLoad == [fn |-> "none", a |-> "none", b |-> "none"]

\* A task of FoodLogView.loadFoodLogs: where it stands and the dateString
\* it computed.
IdleFoodLogTask == [pc |-> "idle", dateString |-> <<>>]

ParkedViews ==
    /\ ui = InitialUI
    /\ loads = [k \in 1..MaxLoads |-> IdleLoad]
    /\ selectedDate = 0
    /\ foodLogTasks = [k \in 1..MaxFoodLogTasks |-> IdleFoodLogTask]
    /\ levelInput = <<>>
    /\ levelShown = None
    /\ convLogs = <<>>
    /\ convItems = None

\* A new task takes the first free slot (which slot is immaterial).
FreeLoads ==
    LET free == {k \in 1..MaxLoads : loads[k].fn = "none"} IN
    {k \in free : \A j \in free : k <= j}

\* The functions of the views that call the NetworkManager, each run in a
\* Task of its own.
ViewFns == {"HomeView.loadData", "ProfileView.loadProfileData",
            "FoodLogView.loadFoodLogs", "MealAnalysisView.analyzeMeal",
            "MealAnalysisView.saveMeal", "NutritionAdviceView.loadAdvice"}

\* loadData / loadProfileData start their two calls with `async let` and
\* await both; the other functions make their calls one after the other.
Parallel(fn) == fn \in {"HomeView.loadData", "ProfileView.loadProfileData"}

\* The NetworkManager method behind call a and call b of a view function.
CallOp(fn, c) ==
    CASE fn = "HomeView.loadData" ->
            IF c = "a" THEN "getUserAchievements" ELSE "getUserFoodLogs"
      [] fn = "ProfileView.loadProfileData" ->
            IF c = "a" THEN "getUserProfile" ELSE "getUserAchievements"
      [] fn = "FoodLogView.loadFoodLogs" -> "getUserFoodLogs"
      [] fn = "MealAnalysisView.analyzeMeal" ->
            IF c = "a" THEN "uploadImage" ELSE "analyzeMeal"
      [] fn = "MealAnalysisView.saveMeal" -> "saveFoodLog"
      [] OTHER ->  \* NutritionAdviceView.loadAdvice
            IF c = "a" THEN "getUserFoodLogs"
            ELSE IF isAuthenticated THEN "getPersonalizedNutritionAdvice"
                 ELSE "getNutritionAdvice"

S_FailedToSaveMeal ==
    <<"F","a","i","l","e","d"," ","t","o"," ","s","a","v","e"," ","m","e","a","l",":"," ">>
S_Eggs == <<"e","g","g","s">>

\* What a view function writes before its first call.
BeginUI(fn, u) ==
    CASE fn = "HomeView.loadData" -> [u EXCEPT !.HomeView.isLoading = TRUE]
      [] fn = "ProfileView.loadProfileData" -> [u EXCEPT !.ProfileView.isLoading = TRUE]
      [] fn = "FoodLogView.loadFoodLogs" -> [u EXCEPT !.FoodLogView.isLoading = TRUE]
      [] fn = "MealAnalysisView.analyzeMeal" ->
            [u EXCEPT !.MealAnalysisView.isAnalyzing = TRUE,
                      !.MealAnalysisView.errorMessage = None]
      [] fn = "MealAnalysisView.saveMeal" -> u
      [] OTHER ->
            [u EXCEPT !.NutritionAdviceView.isLoading = TRUE,
                      !.NutritionAdviceView.errorMessage = None]

\* The calls it then starts.
BeginPos(fn, u) ==
    CASE Parallel(fn) -> [fn |-> fn, a |-> "start", b |-> "start"]
      [] fn = "MealAnalysisView.analyzeMeal" /\ ~u.MealAnalysisView.selectedImage ->
            [fn |-> fn, a |-> "none", b |-> "start"]
      [] OTHER -> [fn |-> fn, a |-> "start", b |-> "none"]

\* What a view function writes when its call c has ended with result res
\* (the assignment or the catch, and what follows up to the next await).
AfterCall(fn, c, res, u) ==
    CASE fn = "HomeView.loadData" ->
            IF ~res.ok THEN u   \* print(...)
            ELSE IF c = "a" THEN [u EXCEPT !.HomeView.achievements = res.value]
                 ELSE [u EXCEPT !.HomeView.todaysFoodLogs = res.value]
      [] fn = "ProfileView.loadProfileData" ->
            IF ~res.ok THEN u   \* print(...)
            ELSE IF c = "a" THEN [u EXCEPT !.ProfileView.userProfile = Some(res.value)]
                 ELSE [u EXCEPT !.ProfileView.achievements = res.value]
      [] fn = "FoodLogView.loadFoodLogs" ->
            [u EXCEPT !.FoodLogView.foodLogs =
                          IF res.ok THEN res.value ELSE EmptyArray("FoodLogs"),
                      !.FoodLogView.isLoading = FALSE]
      [] fn = "MealAnalysisView.analyzeMeal" ->
            IF ~res.ok
            THEN [u EXCEPT !.MealAnalysisView.errorMessage =
                               Some(localizedDescription(res.error)),
                           !.MealAnalysisView.isAnalyzing = FALSE]
            ELSE IF c = "a" THEN u   \* imageUrl is a local
                 ELSE [u EXCEPT !.MealAnalysisView.mealResponse = Some(res.value),
                                !.MealAnalysisView.isAnalyzing = FALSE]
      [] fn = "MealAnalysisView.saveMeal" ->
            IF res.ok
            THEN [u EXCEPT !.MealAnalysisView.selectedImage = FALSE,
                           !.MealAnalysisView.userInput = <<>>,
                           !.MealAnalysisView.mealResponse = None]
            ELSE [u EXCEPT !.MealAnalysisView.errorMessage =
                               Some(S_FailedToSaveMeal \o localizedDescription(res.error))]
      [] OTHER ->  \* NutritionAdviceView.loadAdvice
            IF c = "a"
            THEN [u EXCEPT !.NutritionAdviceView.foodLogs =
                               IF res.ok THEN res.value ELSE EmptyArray("FoodLogs")]
            ELSE IF res.ok
                 THEN [u EXCEPT !.NutritionAdviceView.nutritionAdvice = Some(res.value),
                                !.NutritionAdviceView.isLoading = FALSE]
                 ELSE [u EXCEPT !.NutritionAdviceView.errorMessage =
                                    Some(localizedDescription(res.error)),
                                !.NutritionAdviceView.isLoading = FALSE]

\* Where the task stands after that.
AfterPos(fn, c, res, l) ==
    CASE Parallel(fn) -> [l EXCEPT ![c] = "done"]
      [] fn = "MealAnalysisView.analyzeMeal" /\ c = "a" /\ res.ok ->
            [l EXCEPT !.a = "done", !.b = "start"]
      [] fn = "NutritionAdviceView.loadAdvice" /\ c = "a" ->
            [l EXCEPT !.a = "done", !.b = "start"]
      [] OTHER -> IdleLoad

\* The foodLog argument of call c: loadAdvice passes
\* convertToFoodLogItems(foodLogs), one item per logged food.
FoodLogArg(fn, c, u) ==
    IF fn = "NutritionAdviceView.loadAdvice" /\ c = "b"
    THEN Len(u.NutritionAdviceView.foodLogs.items) ELSE 0

\* DailySummaryCard
totalCaloriesMutant(foodLogs) == 250 + SumSeq(foodLogs.items)
totalCalories(foodLogs) == SumSeq(foodLogs.items)
mealCount(foodLogs) == Len(foodLogs.items)

nmFixed == <<authToken, isAuthenticated, currentUser, isLoading, errorMessage,
             authFlow, meTasks, callTasks>>

\* The tab views exist while the user is signed in; currentUser is loaded
\* or still on its way.
InitViews ==
    /\ ParkedViews
    /\ authToken = Some(Tok1)
    /\ isAuthenticated = TRUE
    /\ currentUser \in {None, Some(Alice)}
    /\ isLoading = FALSE
    /\ errorMessage = None
    /\ authFlow = IdleFlow
    /\ meTasks = [i \in 1..MaxMe |-> IdleTask]
    /\ callTasks = [i \in 1..MaxCalls |-> IdleTask]
    /\ sent = 0
    /\ lastReq = NoRequest
    /\ lastOutcome = NoOutcome
    /\ terminated = FALSE

\* The user picks or removes a photo, or types a description.
EditMeal(img, txt) ==
    /\ ~terminated
    /\ ui' = [ui EXCEPT !.MealAnalysisView.selectedImage = img,
                        !.MealAnalysisView.userInput = txt]
    /\ UNCHANGED <<loads, nmFixed, sent, lastReq, lastOutcome, terminated>>
    /\ UNCHANGED <<respVars, rnVars, dateVars, levelVars, convVars>>

\* onAppear / pull to refresh / a button starts a view function in a Task;
\* it runs up to its first call.
ViewBegin(fn) ==
    /\ ~terminated
    /\ isAuthenticated
    /\ fn = "MealAnalysisView.analyzeMeal" =>
          (~ui.MealAnalysisView.isAnalyzing /\ ui.MealAnalysisView.userInput # <<>>)
    /\ fn = "MealAnalysisView.saveMeal" => ui.MealAnalysisView.mealResponse # None
    /\ \E k \in FreeLoads :
          loads' = [loads EXCEPT ![k] = BeginPos(fn, ui)]
    /\ ui' = BeginUI(fn, ui)
    /\ UNCHANGED <<nmFixed, sent, lastReq, lastOutcome, terminated>>
    /\ UNCHANGED <<respVars, rnVars, dateVars, levelVars, convVars>>

\* Call c of task k runs the NetworkManager method up to its await: it
\* throws, or ends the process, or hands a request to URLSession.
ViewCallStart(k, c) ==
    /\ ~terminated
    /\ loads[k][c] = "start"
    /\ LET fn == loads[k].fn
           op == CallOp(fn, c)
           p  == methodPrepare(op, currentUser, authToken) IN
       IF ~p.ok
       THEN /\ ui' = AfterCall(fn, c, Thrown(p.error), ui)
            /\ loads' = [loads EXCEPT ![k] = AfterPos(fn, c, Thrown(p.error), loads[k])]
            /\ lastOutcome' = Outcome(op, authToken, NoRequest, Thrown(p.error))
            /\ UNCHANGED <<sent, lastReq, terminated>>
       ELSE IF ~isValidJSONObject(op, FoodLogArg(fn, c, ui))
       THEN /\ terminated' = TRUE
            /\ lastOutcome' = Outcome(op, authToken, NoRequest, Crashed)
            /\ UNCHANGED <<ui, loads, sent, lastReq>>
       ELSE /\ sent < MaxViewSent
            /\ loads' = [loads EXCEPT ![k][c] = "wait"]
            /\ sent' = sent + 1
            /\ lastReq' = p.request
            /\ UNCHANGED <<ui, lastOutcome, terminated>>
    /\ UNCHANGED nmFixed
    /\ UNCHANGED <<respVars, rnVars, dateVars, levelVars, convVars>>

\* The response to call c of task k arrives.
ViewCallDeliver(k, c, r) ==
    /\ ~terminated
    /\ loads[k][c] = "wait"
    /\ LET fn  == loads[k].fn
           op  == CallOp(fn, c)
           res == methodResponse(op, r) IN
       /\ ui' = AfterCall(fn, c, res, ui)
       /\ loads' = [loads EXCEPT ![k] = AfterPos(fn, c, res, loads[k])]
       /\ lastOutcome' = Outcome(op, authToken,
                                 methodPrepare(op, currentUser, authToken).request, res)
    /\ UNCHANGED <<nmFixed, sent, lastReq, terminated>>
    /\ UNCHANGED <<respVars, rnVars, dateVars, levelVars, convVars>>

\* loadData / loadProfileData: both awaits have returned.
ViewJoinMutant(k) ==
    /\ ~terminated
    /\ Parallel(loads[k].fn)
    /\ loads[k].a = "done" \/ loads[k].b = "done"
    /\ ui' = IF loads[k].fn = "HomeView.loadData"
             THEN [ui EXCEPT !.HomeView.isLoading = FALSE]
             ELSE [ui EXCEPT !.ProfileView.isLoading = FALSE]
    /\ loads' = [loads EXCEPT ![k] = IdleLoad]
    /\ UNCHANGED <<nmFixed, sent, lastReq, lastOutcome, terminated>>
    /\ UNCHANGED <<respVars, rnVars, dateVars, levelVars, convVars>>
ViewJoin(k) ==
    /\ ~terminated
    /\ Parallel(loads[k].fn)
    /\ loads[k].a = "done" /\ loads[k].b = "done"
    /\ ui' = IF loads[k].fn = "HomeView.loadData"
             THEN [ui EXCEPT !.HomeView.isLoading = FALSE]
             ELSE [ui EXCEPT !.ProfileView.isLoading = FALSE]
    /\ loads' = [loads EXCEPT ![k] = IdleLoad]
    /\ UNCHANGED <<nmFixed, sent, lastReq, lastOutcome, terminated>>
    /\ UNCHANGED <<respVars, rnVars, dateVars, levelVars, convVars>>

NextViews ==
    \/ \E img \in BOOLEAN, txt \in {<<>>, S_Eggs} : EditMeal(img, txt)
    \/ \E fn \in ViewFns : ViewBegin(fn)
    \/ \E k \in 1..MaxLoads, c \in {"a", "b"} : ViewCallStart(k, c)
    \/ \E k \in 1..MaxLoads, c \in {"a", "b"} :
          \E r \in ServerAnswers(OpInfo(CallOp(loads[k].fn, c)).U) : ViewCallDeliver(k, c, r)
    \/ \E k \in 1..MaxLoads : ViewJoin(k)

InitAllViews == InitViews /\ ParkedResp /\ ParkedRNState
SpecViews == InitAllViews /\ [][NextViews]_vars

\* FoodLogScreen: totalCalories and mealCount of the rendered list.
rnTotalCalories(foodLogs) == SumSeq(foodLogs.items)
rnMealCount(foodLogs) == Len(foodLogs.items)

\* The food-log screens of both clients side by side.
NextFoodLog ==
    \/ ViewBegin("FoodLogView.loadFoodLogs")
    \/ \E k \in 1..MaxLoads : ViewCallStart(k, "a")
    \/ \E k \in 1..MaxLoads : \E r \in ServerAnswers("FoodLogs") : ViewCallDeliver(k, "a", r)
    \/ \E t \in Tokens, u \in Usernames : RNLogin(t, u)
    \/ \E r \in ServerAnswers("FoodLogs") : RNLoadFoodLogs(r)
    \/ \E r \in ServerAnswers("FoodLogs") : RNLoadTodayStats(r)

InitFoodLog == InitViews /\ ParkedResp /\ InitRN
SpecFoodLog == InitFoodLog /\ [][NextFoodLog]_vars

(***************************************************************************)
(* SpecDates: FoodLogView with its date selection.                         *)
(***************************************************************************)
\* The days the user can select, counted back from today.
Days == 0..MaxDaysAgo

\* dateFormatter.string(from:) with dateFormat "yyyy-MM-dd", for the day
\* `d` days before a today in the middle of a month.
dateFormatter(d) ==
    <<"2","0","2","6","-","1","1","-","1">> \o IntToString(9 - d)

\* The server keeps a list per day: its answers to a request with
\* date_filter = dateString hold entries of that day (date_string) only.
ServerAnswersOn(dateString) ==
    {IF r.body.shape = "FoodLogs" THEN [r EXCEPT !.body.str = dateString] ELSE r :
        r \in ServerAnswers("FoodLogs")}

\* loadFoodLogs() called n times in one handler: n new tasks.
loadFoodLogs(n) ==
    LET free == {k \in 1..MaxFoodLogTasks : foodLogTasks[k].pc = "idle"} IN
    /\ Cardinality(free) >= n
    /\ foodLogTasks' =
          [k \in 1..MaxFoodLogTasks |->
              IF k \in free /\ Cardinality({j \in free : j < k}) < n
              THEN [pc |-> "start", dateString |-> <<>>]
              ELSE foodLogTasks[k]]

\* onAppear, or "Done" in the DatePickerSheet: loadFoodLogs().
FoodLogAppear ==
    /\ ~terminated /\ isAuthenticated
    /\ loadFoodLogs(1)
    /\ UNCHANGED <<selectedDate, ui, loads>>
    /\ UNCHANGED <<nmFixed, sent, lastReq, lastOutcome, terminated>>
    /\ UNCHANGED <<respVars, rnVars, levelVars, convVars>>

\* A quick date button: selectedDate = date; loadFoodLogs(); and onChange
\* calls loadFoodLogs() once more when the Date value changed (pressing the
\* button of the selected day changes the value when the buttons were
\* rebuilt since, as recentDates starts from Date()).
QuickDate(d, changed) ==
    /\ ~terminated /\ isAuthenticated
    /\ d # selectedDate => changed
    /\ selectedDate' = d
    /\ loadFoodLogs(IF changed THEN 2 ELSE 1)
    /\ UNCHANGED <<ui, loads>>
    /\ UNCHANGED <<nmFixed, sent, lastReq, lastOutcome, terminated>>
    /\ UNCHANGED <<respVars, rnVars, levelVars, convVars>>

\* The DatePicker of the sheet writes the binding: onChange calls
\* loadFoodLogs().
PickDate(d) ==
    /\ ~terminated /\ isAuthenticated
    /\ d # selectedDate
    /\ selectedDate' = d
    /\ loadFoodLogs(1)
    /\ UNCHANGED <<ui, loads>>
    /\ UNCHANGED <<nmFixed, sent, lastReq, lastOutcome, terminated>>
    /\ UNCHANGED <<respVars, rnVars, levelVars, convVars>>

\* The task runs up to the await in getUserFoodLogs: isLoading = true, the
\* dateString of the date selected now, then the request leaves or the
\* method throws (catch: foodLogs = [], then isLoading = false).
LoadFoodLogsStart(k) ==
    /\ ~terminated
    /\ foodLogTasks[k].pc = "start"
    /\ LET dateString == dateFormatter(selectedDate)
           p == methodPrepare("getUserFoodLogs", currentUser, authToken) IN
       IF ~p.ok
       THEN /\ ui' = [ui EXCEPT !.FoodLogView.foodLogs = EmptyArray("FoodLogs"),
                                !.FoodLogView.isLoading = FALSE]
            /\ foodLogTasks' = [foodLogTasks EXCEPT ![k] = IdleFoodLogTask]
            /\ lastOutcome' = Outcome("getUserFoodLogs", authToken, NoRequest, Thrown(p.error))
            /\ UNCHANGED <<sent, lastReq>>
       ELSE /\ sent < MaxViewSent
            /\ ui' = [ui EXCEPT !.FoodLogView.isLoading = TRUE]
            /\ foodLogTasks' = [foodLogTasks EXCEPT ![k] =
                                  [pc |-> "wait", dateString |-> dateString]]
            /\ sent' = sent + 1
            /\ lastReq' = p.request
            /\ UNCHANGED lastOutcome
    /\ UNCHANGED <<selectedDate, loads, nmFixed, terminated>>
    /\ UNCHANGED <<respVars, rnVars, levelVars, convVars>>

\* The response arrives: foodLogs is assigned (or emptied by the catch) and
\* isLoading = false.
LoadFoodLogsDeliver(k, r) ==
    /\ ~terminated
    /\ foodLogTasks[k].pc = "wait"
    /\ LET res == methodResponse("getUserFoodLogs", r) IN
       /\ ui' = [ui EXCEPT !.FoodLogView.foodLogs =
                               IF res.ok THEN res.value ELSE EmptyArray("FoodLogs"),
                           !.FoodLogView.isLoading = FALSE]
       /\ lastOutcome' = Outcome("getUserFoodLogs", authToken,
                                 methodPrepare("getUserFoodLogs", currentUser, authToken).request,
                                 res)
    /\ foodLogTasks' = [foodLogTasks EXCEPT ![k] = IdleFoodLogTask]
    /\ UNCHANGED <<selectedDate, loads, nmFixed, sent, lastReq, terminated>>
    /\ UNCHANGED <<respVars, rnVars, levelVars, convVars>>

NextDates ==
    \/ FoodLogAppear
    \/ \E d \in Days, changed \in BOOLEAN : QuickDate(d, changed)
    \/ \E d \in Days : PickDate(d)
    \/ \E k \in 1..MaxFoodLogTasks : LoadFoodLogsStart(k)
    \/ \E k \in 1..MaxFoodLogTasks :
          \E r \in ServerAnswersOn(foodLogTasks[k].dateString) : LoadFoodLogsDeliver(k, r)

InitDates == InitViews /\ ParkedResp /\ ParkedRNState
SpecDates == InitDates /\ [][NextDates]_vars

(***************************************************************************)
(* SpecLevel: the level both clients compute from the same achievements.   *)
(***************************************************************************)
MaxAchievements == 3     \* achievements in the list

\* Achievement.points of the achievements the server may return.
PointValues == {0, 10, 50, 100, 150}

AchievementLists ==
    UNION {[1..n -> PointValues] : n \in 0..MaxAchievements}

\* AchievementsView: achievements.reduce(0) { $0 + $1.points }
totalPoints(achievements) == SumSeq(achievements)

\* max(1, totalPoints / 100), Int division
currentLevel(achievements) ==
    LET q == totalPoints(achievements) \div 100 IN IF q > 1 THEN q ELSE 1

pointsToNextLevel(achievements) ==
    LET nextLevelPoints == (currentLevel(achievements) + 1) * 100 IN
    nextLevelPoints - totalPoints(achievements)

\* levelProgress, a Double: kept as the two Ints it divides.
levelProgress(achievements) ==
    LET currentLevelPoints == currentLevel(achievements) * 100
        nextLevelPoints == (currentLevel(achievements) + 1) * 100
        progressPoints == totalPoints(achievements) - currentLevelPoints IN
    [num |-> progressPoints, den |-> nextLevelPoints - currentLevelPoints]

\* ProfileScreen "Level" StatCard:
\* Math.floor(achievements.reduce((sum, ach) => sum + ach.points, 0) / 100) + 1
rnLevel(achievements) == (SumSeq(achievements) \div 100) + 1

\* Both clients have loaded the same list.
InitLevel ==
    /\ levelInput \in AchievementLists
    /\ levelShown = None

\* The views render their level figures.
RenderLevel ==
    /\ levelShown = None
    /\ levelShown' = Some([totalPoints |-> totalPoints(levelInput),
                           currentLevel |-> currentLevel(levelInput),
                           pointsToNextLevel |-> pointsToNextLevel(levelInput),
                           levelProgress |-> levelProgress(levelInput),
                           rnLevel |-> rnLevel(levelInput)])
    /\ UNCHANGED <<levelInput, ui, loads, dateVars, convVars>>
    /\ UNCHANGED <<respVars, iosVars, rnVars>>

NextLevel == RenderLevel

InitAllLevel ==
    /\ InitLevel
    /\ ui = InitialUI
    /\ loads = [k \in 1..MaxLoads |-> IdleLoad]
    /\ selectedDate = 0
    /\ foodLogTasks = [k \in 1..MaxFoodLogTasks |-> IdleFoodLogTask]
    /\ convLogs = <<>>
    /\ convItems = None
    /\ ParkedResp /\ ParkedIOS /\ ParkedRNState
SpecLevel == InitAllLevel /\ [][NextLevel]_vars

(***************************************************************************)
(* SpecRNDates: the date navigation of the React Native FoodLogScreen.     *)
(***************************************************************************)
TicksPerDay == 2     \* clock ticks in a calendar day
MaxNow      == 9     \* how long the clock runs, in ticks
MaxBackDays == 3     \* how far back the user navigates, in days

\* The calendar day a timestamp falls on (toDateString).
CalendarDay(t) == t \div TicksPerDay

\* disabled={selectedDate >= new Date()}, evaluated when the screen renders
forwardDisabled(selected, now) == selected >= now

\* Time passes.
Tick ==
    /\ rnNow < MaxNow
    /\ rnNow' = rnNow + 1
    /\ UNCHANGED <<rnSelectedDate, rnForwardDisabled>>
    /\ UNCHANGED <<rnToken, rnUser, rnFoodLogs, rnTodayStats, rnAdvice, rnMealResult,
                   rnSent, rnLastReq, rnOutcome, rnProfileVars>>
    /\ UNCHANGED <<respVars, iosVars, viewVars>>

\* A state update (setFoodLogs, setLoading, setRefreshing) renders the
\* screen again.
Rerender ==
    /\ rnForwardDisabled' = forwardDisabled(rnSelectedDate, rnNow)
    /\ UNCHANGED <<rnNow, rnSelectedDate>>
    /\ UNCHANGED <<rnToken, rnUser, rnFoodLogs, rnTodayStats, rnAdvice, rnMealResult,
                   rnSent, rnLastReq, rnOutcome, rnProfileVars>>
    /\ UNCHANGED <<respVars, iosVars, viewVars>>

\* changeDate(direction): setDate(getDate() + direction) keeps the time of
\* day; setSelectedDate renders the screen again.  The forward button only
\* reacts when it was rendered enabled.
changeDate(direction) ==
    /\ direction = 1 => ~rnForwardDisabled
    /\ direction = -1 => rnSelectedDate - TicksPerDay >= 0 - MaxBackDays * TicksPerDay
    /\ rnSelectedDate' = rnSelectedDate + direction * TicksPerDay
    /\ rnForwardDisabled' = forwardDisabled(rnSelectedDate', rnNow)
    /\ UNCHANGED rnNow
    /\ UNCHANGED <<rnToken, rnUser, rnFoodLogs, rnTodayStats, rnAdvice, rnMealResult,
                   rnSent, rnLastReq, rnOutcome, rnProfileVars>>
    /\ UNCHANGED <<respVars, iosVars, viewVars>>

NextRNDates ==
    \/ Tick
    \/ Rerender
    \/ \E direction \in {-1, 1} : changeDate(direction)

\* The screen is mounted: useState(new Date()) and the first render happen
\* in the same tick, at any time of the day.
InitRNDates ==
    /\ rnToken = None
    /\ rnUser = None
    /\ rnFoodLogs = EmptyList
    /\ rnTodayStats = ZeroStats
    /\ rnAdvice = None
    /\ rnMealResult = None
    /\ rnSent = 0
    /\ rnLastReq = NoRequest
    /\ rnOutcome = NoRnOutcome
    /\ rnProfile = None
    /\ rnAchievements = Body("array", NoDetail, "Achievements", <<>>, <<>>)
    /\ rnNow \in 0..(TicksPerDay - 1)
    /\ rnSelectedDate = rnNow
    /\ rnForwardDisabled = forwardDisabled(rnSelectedDate, rnNow)
    /\ ParkedResp /\ ParkedIOS /\ ParkedViews
SpecRNDates == InitRNDates /\ [][NextRNDates]_vars

(***************************************************************************)
(* SpecConvert: from the JSON of the food logs to the FoodLogItems sent    *)
(* for advice.                                                             *)
(***************************************************************************)
MaxFoods == 1     \* foods in the first log

\* JSON values of a food's fields.  Numbers are counted in halves, so that
\* 200 is Number(400, TRUE) and 200.5 is Number(401, FALSE).
Absent == [json |-> "absent", halves |-> 0, integral |-> FALSE, s |-> <<>>]
Number(halves, integral) == [json |-> "number", halves |-> halves, integral |-> integral, s |-> <<>>]
String(s) == [json |-> "string", halves |-> 0, integral |-> FALSE, s |-> s]

S_Egg == <<"e","g","g">>

\* The foods the server may send: with or without a name, calories and
\* protein_g as an integer, as a fraction or missing (carbs_g and fat_g
\* missing).
JsonFoods ==
    {[name |-> n, calories |-> c, protein_g |-> p, carbs_g |-> Absent, fat_g |-> Absent] :
        n \in {Absent, String(S_Egg)},
        c \in {Absent, Number(400, TRUE), Number(401, FALSE)},
        p \in {Absent, Number(20, TRUE), Number(21, FALSE)}}

\* One log with up to MaxFoods foods, possibly followed by a log of one
\* food.
JsonFoodLists(n) == UNION {[1..m -> JsonFoods] : m \in 0..n}
JsonLogs ==
    {<<first>> : first \in JsonFoodLists(MaxFoods)}
    \cup {<<first, second>> : first \in JsonFoodLists(MaxFoods), second \in JsonFoodLists(1)}

\* AnyCodable.init(from:): Int is tried first, then Double, String, Bool;
\* `value` is the Swift value of the first type that decodes.
AnyCodable(v) ==
    CASE v.json = "number" /\ v.integral -> [type |-> "Int", halves |-> v.halves, s |-> <<>>]
      [] v.json = "number"               -> [type |-> "Double", halves |-> v.halves, s |-> <<>>]
      [] v.json = "string"               -> [type |-> "String", halves |-> 0, s |-> v.s]
      [] OTHER                           -> [type |-> "Void", halves |-> 0, s |-> <<>>]

\* food[key]?.value as? Double / as? String: nil for a missing key, and nil
\* unless `value` holds exactly that Swift type.
asDouble(food, key) ==
    IF food[key].json # "absent" /\ AnyCodable(food[key]).type = "Double"
    THEN Some(AnyCodable(food[key]).halves) ELSE None
asString(food, key) ==
    IF food[key].json # "absent" /\ AnyCodable(food[key]).type = "String"
    THEN Some(AnyCodable(food[key]).s) ELSE None

\* x ?? 0
orZero(o) == IF o = None THEN 0 ELSE Get(o)

FoodLogItem(name, calories, proteinG, carbsG, fatG) ==
    [name |-> name, calories |-> calories, proteinG |-> proteinG,
     carbsG |-> carbsG, fatG |-> fatG]

\* The inner loop of convertToFoodLogItems over one log's foods.
RECURSIVE convertFoods(_)
convertFoods(foods) ==
    IF foods = <<>> THEN <<>>
    ELSE LET food == Head(foods) IN
         (IF asString(food, "name") # None /\ asDouble(food, "calories") # None
          THEN <<FoodLogItem(Get(asString(food, "name")),
                             Get(asDouble(food, "calories")),
                             orZero(asDouble(food, "protein_g")),
                             orZero(asDouble(food, "carbs_g")),
                             orZero(asDouble(food, "fat_g")))>>
          ELSE <<>>)
         \o convertFoods(Tail(foods))

RECURSIVE convertToFoodLogItems(_)
convertToFoodLogItems(logs) ==
    IF logs = <<>> THEN <<>>
    ELSE convertFoods(Head(logs)) \o convertToFoodLogItems(Tail(logs))

InitConvert ==
    /\ convLogs \in JsonLogs
    /\ convItems = None

\* loadAdvice converts the logs it fetched.
Convert ==
    /\ convItems = None
    /\ convItems' = Some(convertToFoodLogItems(convLogs))
    /\ UNCHANGED <<convLogs, ui, loads, dateVars, levelVars>>
    /\ UNCHANGED <<respVars, iosVars, rnVars>>

NextConvert == Convert

InitAllConvert ==
    /\ InitConvert
    /\ ui = InitialUI
    /\ loads = [k \in 1..MaxLoads |-> IdleLoad]
    /\ selectedDate = 0
    /\ foodLogTasks = [k \in 1..MaxFoodLogTasks |-> IdleFoodLogTask]
    /\ levelInput = <<>>
    /\ levelShown = None
    /\ ParkedResp /\ ParkedIOS /\ ParkedRNState
SpecConvert == InitAllConvert /\ [][NextConvert]_vars

InitAllRN == InitRN /\ ParkedResp /\ ParkedIOS /\ ParkedViews
SpecRN == InitAllRN /\ [][NextRN]_vars

InitAllResp == InitResp /\ ParkedIOS /\ ParkedRNState /\ ParkedViews
SpecResp == InitAllResp /\ [][NextResp]_vars

Init == InitIOS /\ ParkedResp /\ ParkedRNState /\ ParkedViews

Next == NextIOS

Spec == Init /\ [][Next]_vars

(***************************************************************************)
(* Properties of the response normalisation (checked under SpecResp).      *)
(***************************************************************************)
IsHttp == resp.transport = "ok"
HasStringDetail == resp.body.json = "object" /\ resp.body.detail.kind = "string"
IosMessage == localizedDescription(Get(iosOut).error)
RnMessage == Get(rnOut).error.message

\* C3 as stated: for every non-2xx response whose body is a JSON object with
\* a string detail X, the error of either client has message exactly X, the
\* empty string included.
C3_DetailIsMessage ==
    (IsHttp /\ resp.status \notin 200..299 /\ HasStringDetail) =>
        /\ iosOut # None => (~Get(iosOut).ok /\ IosMessage = resp.body.detail.s)
        /\ rnOut # None  => (~Get(rnOut).ok /\ RnMessage = resp.body.detail.s)

\* C3 amended: on iOS the message is X for every X; in React Native it is X
\* for every non-empty X, and 'API request failed' when X is empty.
C3_DetailIsMessageUnlessEmptyRN ==
    (IsHttp /\ resp.status \notin 200..299 /\ HasStringDetail) =>
        /\ iosOut # None => (~Get(iosOut).ok /\ IosMessage = resp.body.detail.s)
        /\ rnOut # None  =>
             /\ ~Get(rnOut).ok
             /\ RnMessage = IF resp.body.detail.s = <<>> THEN S_APIRequestFailed
                            ELSE resp.body.detail.s

C3_Witness ==
    /\ IsHttp /\ resp.status = 401 /\ HasStringDetail
    /\ resp.body.detail.s = <<>>
    /\ iosOut # None /\ IosMessage = <<>>
    /\ rnOut # None /\ RnMessage = S_APIRequestFailed

\* C4: in performRequest (both overloads) a response whose status is neither
\* 200 nor 201 and whose body has no decodable string detail fails with
\* serverError(status), and the message contains the status in decimal.
C4_ServerErrorCarriesStatus ==
    (IsHttp /\ resp.status \notin {200, 201} /\ ~HasStringDetail /\ iosOut # None) =>
        /\ ~Get(iosOut).ok
        /\ Get(iosOut).error.case = "serverError"
        /\ Get(iosOut).error.code = resp.status
        /\ Contains(IosMessage, IntToString(resp.status))

C4_Witness ==
    /\ IsHttp /\ resp.status = 500 /\ resp.body = MalformedBody
    /\ overload = "any"
    /\ iosOut # None
    /\ IosMessage = S_ServerErrorPrefix \o <<"5", "0", "0">>

\* C5: in apiRequest every non-2xx response without a detail field produces
\* an error whose message contains the status code of that response.
C5_RNMessageCarriesStatus ==
    (IsHttp /\ resp.status \notin 200..299 /\ resp.body.detail.kind = "absent"
        /\ rnOut # None) =>
        /\ ~Get(rnOut).ok
        /\ Contains(RnMessage, IntToString(resp.status))

\* C6 as stated: in both clients a response is treated as success exactly
\* when its status is 200 or 201; every other status, other 2xx included,
\* ends in an error.
C6_SuccessIs200Or201 ==
    IsHttp =>
        /\ iosOut # None =>
             IF resp.status \in {200, 201}
             THEN Get(iosOut).ok \/ Get(iosOut).error.case = "DecodingError"
             ELSE ~Get(iosOut).ok
        /\ rnOut # None =>
             IF resp.status \in {200, 201}
             THEN Get(rnOut).ok \/ Get(rnOut).error.name = "SyntaxError"
             ELSE ~Get(rnOut).ok

\* C6 amended: iOS returns a value exactly for status 200 or 201 with a body
\* that decodes as the expected type, every other status ends in an error;
\* React Native returns a value exactly for a status in 200..299 with a body
\* that parses as JSON, so the clients differ on the other 2xx statuses.
C6_SuccessPerClient ==
    IsHttp =>
        /\ iosOut # None =>
             (Get(iosOut).ok <=>
                 /\ resp.status \in {200, 201}
                 /\ resp.body.json \in {"object", "array"}
                 /\ resp.body.shape = respU)
        /\ rnOut # None =>
             (Get(rnOut).ok <=>
                 /\ resp.status \in 200..299
                 /\ resp.body.json # "malformed")

C6_Witness ==
    /\ IsHttp /\ resp.status = 202 /\ resp.body = EmptyObject
    /\ iosOut # None /\ ~Get(iosOut).ok
    /\ rnOut # None /\ Get(rnOut).ok

\* C14: uploadImage follows the contract of the other calls: a 200 or 201
\* whose body decodes returns the decoded value, and a non-2xx response
\* fails with apiError(detail) when the body carries a string detail,
\* otherwise with serverError(status).
C14_UploadFollowsContract ==
    (IsHttp /\ uploadOut # None) =>
        /\ (resp.status \in {200, 201} /\ Decodes(resp.body, "Upload")) =>
               (Get(uploadOut).ok /\ Get(uploadOut).value = Decoded(resp.body))
        /\ (resp.status \notin 200..299 /\ HasStringDetail) =>
               /\ ~Get(uploadOut).ok
               /\ Get(uploadOut).error = NetworkError("apiError", 0, resp.body.detail.s)
        /\ (resp.status \notin 200..299 /\ ~HasStringDetail) =>
               /\ ~Get(uploadOut).ok
               /\ Get(uploadOut).error = NetworkError("serverError", resp.status, <<>>)

(***************************************************************************)
(* Properties of the NetworkManager (checked under Spec).                  *)
(***************************************************************************)
\* The step in which task i of `tasks` leaves its start position, i.e. runs
\* its method up to the first await.
Starts(tasks, tasksNext, i) == tasks[i].pc = "start" /\ tasksNext[i].pc # "start"

RefusedUnsent(op) ==
    /\ sent' = sent
    /\ lastReq' = lastReq
    /\ lastOutcome'.op = op
    /\ ~lastOutcome'.ok
    /\ lastOutcome'.error.case = "notAuthenticated"
    /\ lastOutcome'.request = NoRequest

\* C1: a call that requires auth (performRequest with requiresAuth = true in
\* either overload, or uploadImage) made while no token is stored ends with
\* notAuthenticated and hands nothing to URLSession.
C1_NoTokenNoRequest ==
    [][ /\ \A i \in 1..MaxCalls :
             (Starts(callTasks, callTasks', i) /\ OpInfo(callTasks[i].op).requiresAuth
                 /\ authToken = None)
             => (callTasks'[i].pc = "idle" /\ RefusedUnsent(callTasks[i].op))
        /\ \A i \in 1..MaxMe :
             (Starts(meTasks, meTasks', i) /\ authToken = None)
             => (meTasks'[i].pc = "idle" /\ RefusedUnsent("getCurrentUser"))
      ]_vars

\* saveUserProfile has no currentUser guard of its own: the refusal comes
\* from performRequest.
C1_Witness ==
    /\ lastOutcome.op = "saveUserProfile"
    /\ lastOutcome.token = None
    /\ lastOutcome.error.case = "notAuthenticated"
    /\ lastOutcome.request = NoRequest

\* The step in which login() receives a successful answer to POST /auth/login.
LoginStores == authFlow.pc = "login_wait" /\ authFlow'.pc = "me_wait"
\* The step in which login() ends after its getCurrentUser.
LoginEnds == authFlow.pc = "me_wait" /\ authFlow'.pc = "idle"
\* The step in which task i invokes performRequest (or uploadImage) for a
\* method that requires auth: its own currentUser guard, if any, has passed.
InvokesAuth(tasks, tasksNext, i) ==
    /\ Starts(tasks, tasksNext, i)
    /\ OpInfo(tasks[i].op).requiresAuth
    /\ ~(OpInfo(tasks[i].op).needsUser /\ currentUser = None)

AttachesBearer(tasksNext, i, t) ==
    /\ tasksNext[i].pc = "wait"
    /\ sent' = sent + 1
    /\ lastReq' = tasksNext[i].request
    /\ lastReq'.authorization = Some(S_Bearer \o t)

C9_LoginEndsAuthenticated ==
    [][ LoginEnds => (authToken' = Some(authFlow.token.str) /\ isAuthenticated') ]_vars

\* C9 amended: the token t1 is stored and isAuthenticated set as soon as the
\* login response arrives; the GET /auth/me that login() then awaits leaves
\* both as they are when it succeeds and clears both when it fails.
C9_LoginStoresThenMeDecides ==
    [][ /\ LoginStores =>
             (authToken' = Some(authFlow'.token.str) /\ authFlow'.token.shape = "Token"
                /\ isAuthenticated')
        /\ LoginEnds =>
             /\ lastOutcome'.op = "getCurrentUser"
             /\ IF lastOutcome'.ok
                THEN authToken' = authToken /\ isAuthenticated' = isAuthenticated
                ELSE authToken' = None /\ ~isAuthenticated'
      ]_vars

C9_Witness ==
    /\ authFlow.pc = "me_wait"
    /\ authFlow.token.str = Tok1
    /\ authToken = Some(Tok1)
    /\ isAuthenticated

\* The step in which a getCurrentUser call ends (in a task of
\* checkAuthStatus or inside login()).
GetCurrentUserEnds ==
    \/ \E i \in 1..MaxMe : meTasks[i].pc \in {"start", "wait"} /\ meTasks'[i].pc = "idle"
    \/ LoginEnds

\* C10: whenever getCurrentUser fails (no token, transport error, error
\* status, undecodable body) it logs out: right afterwards no token is
\* stored, isAuthenticated is false and currentUser is nil.
C10_FailedMeLogsOut ==
    [][ (GetCurrentUserEnds /\ ~lastOutcome'.ok) =>
            (authToken' = None /\ ~isAuthenticated' /\ currentUser' = None) ]_vars

\* A getCurrentUser sent with a stored token got an error status carrying a
\* detail: all three are cleared.
C10_Witness ==
    /\ lastOutcome.op = "getCurrentUser"
    /\ ~lastOutcome.ok
    /\ lastOutcome.error.case = "apiError"
    /\ lastOutcome.token # None
    /\ authToken = None /\ ~isAuthenticated /\ currentUser = None
    /\ authFlow.pc = "idle"
    /\ sent >= 2

\* The step in which register() or login() ends with an error of its own
\* request (POST /auth/register, POST /auth/login).
AuthRequestFails ==
    authFlow.pc \in {"register_wait", "login_wait"} /\ authFlow'.pc = "idle"
\* A step of a view's call to one of the other API methods.
OtherCallStep ==
    \/ callTasks' # callTasks
    \/ lastOutcome' # lastOutcome /\ lastOutcome'.op \in Ops
\* A step in which logout() runs: the Sign Out button, or the catch of a
\* getCurrentUser that failed.
LogoutRuns ==
    /\ \/ UNCHANGED <<authFlow, meTasks, callTasks, lastOutcome, sent>>
       \/ GetCurrentUserEnds /\ lastOutcome'.op = "getCurrentUser" /\ ~lastOutcome'.ok
    /\ authToken' = logout.authToken
    /\ isAuthenticated' = logout.isAuthenticated
    /\ currentUser' = logout.currentUser

\* C11: the stored token is set only by a login whose POST /auth/login
\* succeeded (to the access_token of the response) and cleared only by
\* logout(); a register or login whose request fails leaves the token,
\* isAuthenticated and currentUser as they were; and no step of any other API
\* method (analyze, advice, food logs, profile, achievements, upload) changes
\* the token.
C11_TokenSetByLoginClearedByLogout ==
    [][ /\ (authToken' # authToken /\ authToken' # None) =>
               (LoginStores /\ authToken' = Some(authFlow'.token.str))
        /\ (authToken' # authToken /\ authToken' = None) => LogoutRuns
        /\ AuthRequestFails =>
               /\ ~lastOutcome'.ok /\ lastOutcome'.op \in {"register", "login"}
               /\ UNCHANGED <<authToken, isAuthenticated, currentUser>>
        /\ OtherCallStep => authToken' = authToken
      ]_vars

\* A view's call failed on an error status while a token is stored and the
\* user loaded: both are still there.
C11_Witness ==
    /\ lastOutcome.op \in Ops
    /\ ~lastOutcome.ok
    /\ lastOutcome.error.case = "apiError"
    /\ lastOutcome.token # None
    /\ authToken = lastOutcome.token
    /\ isAuthenticated
    /\ currentUser # None

\* C12: every invocation of performRequest (through any NetworkManager
\* method) ends in one of three kinds of outcome: a decoded value, an API
\* error (apiError with the detail, serverError with the status), or a
\* transport / invalid-URL / not-authenticated error.
C12_ThreeOutcomes ==
    (lastOutcome.op \notin {"none", "uploadImage"}) =>
        \/ lastOutcome.ok
        \/ lastOutcome.error.case \in {"apiError", "serverError"}
        \/ lastOutcome.error.case \in {"URLError", "invalidURL", "notAuthenticated"}

\* C13: a call that does not require auth (analyzeMeal, getNutritionAdvice)
\* issued while a token is stored leaves with Authorization: Bearer <token>.
C13_PlainCallCarriesBearer ==
    [][ \A i \in 1..MaxCalls :
            (/\ Starts(callTasks, callTasks', i)
             /\ ~OpInfo(callTasks[i].op).requiresAuth
             /\ authToken # None
             /\ callTasks'[i].pc = "wait")
            => (/\ lastReq' = callTasks'[i].request
                /\ lastReq'.authorization = Some(S_Bearer \o Get(authToken)))
      ]_vars

\* C20: when a getCurrentUser of checkAuthStatus that was sent with token A
\* fails while a different token B is stored (a later login), token B stays
\* stored and isAuthenticated stays true.
C20_StaleFailureKeepsNewToken ==
    [][ \A i \in 1..MaxMe :
            (/\ meTasks[i].pc = "wait" /\ meTasks'[i].pc = "idle"
             /\ ~lastOutcome'.ok
             /\ authToken # None
             /\ authToken # meTasks[i].token)
            => (authToken' = authToken /\ isAuthenticated' = isAuthenticated)
      ]_vars

(***************************************************************************)
(* Properties of the React Native screens (checked under SpecRN).          *)
(***************************************************************************)
RnAuthenticatedCalls == {"loadFoodLogs", "loadTodayStats", "saveMeal", "loadAdvice"}

\* C2: an authenticated call (food-log list, today stats, save food log,
\* personalized advice) made while the auth context holds no token fails
\* before any fetch: it ends in an error and issues no network request.
C2_RNNoTokenNoRequest ==
    (rnOutcome.call \in RnAuthenticatedCalls /\ rnOutcome.token = None) =>
        (~rnOutcome.ok /\ rnOutcome.requests = 0)

\* The type each screen call expects in the body of its (last) response.
RnExpected(call) ==
    CASE call = "loadFoodLogs"   -> "FoodLogs"
      [] call = "loadTodayStats" -> "FoodLogs"
      [] call = "analyzeMeal"    -> "Meal"
      [] call = "saveMeal"       -> "SaveResp"
      [] OTHER                   -> "Advice"

RnWellShaped(body, U) == body.json = JsonKindOf(U) /\ body.shape = U

\* C7: for a 200/201 response a call returns a value only when the body is
\* valid JSON of the expected shape; for a malformed or wrongly-shaped body
\* the call fails and no view state is updated from that body.
C7_RNOnlyWellShapedStored ==
    /\ (rnOutcome.requests > 0 /\ rnOutcome.response.transport = "ok"
          /\ rnOutcome.response.status \in {200, 201}
          /\ ~RnWellShaped(rnOutcome.response.body, RnExpected(rnOutcome.call)))
       => ~rnOutcome.ok
    /\ RnWellShaped(rnFoodLogs, "FoodLogs")
    /\ rnAdvice # None => RnWellShaped(Get(rnAdvice), "Advice")
    /\ rnMealResult # None => RnWellShaped(Get(rnMealResult), "Meal")

\* C19: ProfileScreen.loadProfileData issues the profile request and the
\* achievements request, both with the user's bearer token; a failure of the
\* profile request leaves profile as it was and does not keep the
\* achievements request from being issued and its result stored.
C19_ProfileAndAchievementsRequested ==
    (rnOutcome.call = "loadProfileData" /\ rnUser # None /\ rnOutcome.token # None) =>
        /\ rnOutcome.requests = 2
        /\ rnOutcome.authorization = Some(S_Bearer \o Get(rnOutcome.token))
        /\ rnOutcome.ok => rnAchievements = rnOutcome.response.body

(***************************************************************************)
(* Properties of the SwiftUI views (checked under SpecViews).              *)
(***************************************************************************)
\* The step in which call c of view task k ends (it threw before the request,
\* or its response arrived); lastOutcome' is then its result.
ViewCallEnds(k, c) ==
    /\ loads[k][c] \in {"start", "wait"}
    /\ loads'[k][c] \notin {"start", "wait"}

\* The error message the view of fn displays; HomeView, ProfileView and
\* FoodLogView have no property for one.
ErrorShown(fn, u) ==
    CASE fn \in {"MealAnalysisView.analyzeMeal", "MealAnalysisView.saveMeal"} ->
            u.MealAnalysisView.errorMessage
      [] fn = "NutritionAdviceView.loadAdvice" -> u.NutritionAdviceView.errorMessage
      [] OTHER -> None

\* C15: every failed API call of a view ends with an error message stored in
\* the state of that view (and so displayed); none is only logged.
C15_EveryFailureShown ==
    [][ \A k \in 1..MaxLoads, c \in {"a", "b"} :
            (ViewCallEnds(k, c) /\ ~lastOutcome'.ok) =>
                /\ ErrorShown(loads[k].fn, ui') # None
                /\ Get(ErrorShown(loads[k].fn, ui')) # <<>>
      ]_vars

\* C17: when saveMeal's POST /food-logs fails with 401 and detail "Token
\* expired", the message shown is exactly "Token expired", and the analysed
\* meal, the user input and the selected image stay as they were.
C17_SaveFailureShowsDetail ==
    [][ \A k \in 1..MaxLoads :
            (/\ loads[k].fn = "MealAnalysisView.saveMeal"
             /\ ViewCallEnds(k, "a")
             /\ lastOutcome'.error = NetworkError("apiError", 0, S_TokenExpired)) =>
                /\ ui'.MealAnalysisView.errorMessage = Some(S_TokenExpired)
                /\ ui'.MealAnalysisView.mealResponse = ui.MealAnalysisView.mealResponse
                /\ ui'.MealAnalysisView.userInput = ui.MealAnalysisView.userInput
                /\ ui'.MealAnalysisView.selectedImage = ui.MealAnalysisView.selectedImage
      ]_vars

\* The list or value a composite loader stores for its call c.
StoredBy(fn, c, u) ==
    CASE fn = "HomeView.loadData" /\ c = "a" -> u.HomeView.achievements
      [] fn = "HomeView.loadData" /\ c = "b" -> u.HomeView.todaysFoodLogs
      [] fn = "ProfileView.loadProfileData" /\ c = "a" -> Get(u.ProfileView.userProfile)
      [] OTHER -> u.ProfileView.achievements
LoadingOf(fn, u) ==
    IF fn = "HomeView.loadData" THEN u.HomeView.isLoading ELSE u.ProfileView.isLoading
Other(c) == IF c = "a" THEN "b" ELSE "a"

RnGotEmptyList(call) ==
    /\ rnSent' = rnSent + 1
    /\ rnOutcome'.call = call
    /\ rnOutcome'.ok
    /\ rnOutcome'.response.body = EmptyList

\* C16: when the food-log list request returns an empty array, the list of
\* the screen is empty and its summary shows zero calories and zero meals:
\* FoodLogView (DailySummaryCard) on iOS, FoodLogScreen and the today stats
\* of HomeScreen in React Native.
C16_EmptyListZeroSummary ==
    [][ /\ \A k \in 1..MaxLoads :
             (/\ loads[k].fn = "FoodLogView.loadFoodLogs"
              /\ loads[k].a = "wait" /\ loads'[k].a # "wait"
              /\ lastOutcome'.ok
              /\ lastOutcome'.value = EmptyArray("FoodLogs")) =>
                /\ ui'.FoodLogView.foodLogs.items = <<>>
                /\ totalCalories(ui'.FoodLogView.foodLogs) = 0
                /\ mealCount(ui'.FoodLogView.foodLogs) = 0
        /\ RnGotEmptyList("loadFoodLogs") =>
                /\ rnFoodLogs'.items = <<>>
                /\ rnTotalCalories(rnFoodLogs') = 0
                /\ rnMealCount(rnFoodLogs') = 0
        /\ RnGotEmptyList("loadTodayStats") =>
                /\ rnTodayStats'.meals = 0
                /\ rnTodayStats'.calories = 0
      ]_vars

\* All three screens hold the result of an empty answer, each after a
\* request of its own.
C16_Witness ==
    /\ lastOutcome.op = "getUserFoodLogs" /\ lastOutcome.ok
    /\ lastOutcome.request # NoRequest
    /\ lastOutcome.value = EmptyArray("FoodLogs")
    /\ ui.FoodLogView.foodLogs = EmptyArray("FoodLogs")
    /\ ~ui.FoodLogView.isLoading
    /\ sent = 2
    /\ rnOutcome.call = "loadTodayStats" /\ rnOutcome.ok
    /\ rnOutcome.response.body = EmptyList
    /\ rnTodayStats = ZeroStats
    /\ rnFoodLogs = EmptyList
    /\ rnSent = 3

(***************************************************************************)
(* Properties of register (Spec)                                           *)
(***************************************************************************)

\* The step in which register() resumes from POST /auth/register.
RegisterResumes == authFlow.pc = "register_wait" /\ authFlow'.pc # "register_wait"

\* A POST /auth/login request leaves in this step.
LoginRequested == sent' = sent + 1 /\ lastReq' = PlainRequest("login")

\* C21: register attempts a login if and only if the registration request
\* succeeded: when the response makes performRequest return a User, a login
\* request leaves; when it makes performRequest throw, no request leaves,
\* errorMessage is that error's message and register ends with isLoading
\* false.
C21_RegisterLoginsIffSucceeded ==
    [][RegisterResumes =>
         /\ LoginRequested <=> authFlow'.user # NoValue
         /\ LoginRequested => authFlow'.pc = "login_wait"
         /\ ~LoginRequested =>
               /\ sent' = sent
               /\ lastOutcome'.op = "register" /\ ~lastOutcome'.ok
               /\ errorMessage' = Some(localizedDescription(lastOutcome'.error))
               /\ isLoading' = FALSE
               /\ authFlow'.pc = "idle"]_vars

\* A registration has failed: no login followed, the error is shown and
\* loading is over.
C21_Witness ==
    /\ lastOutcome.op = "register"
    /\ ~lastOutcome.ok
    /\ lastReq = PlainRequest("register")
    /\ errorMessage = Some(localizedDescription(lastOutcome.error))
    /\ ~isLoading
    /\ authFlow = IdleFlow

(***************************************************************************)
(* Properties of the authentication state (Spec)                           *)
(***************************************************************************)

\* C22: after init(), in every state between two steps of checkAuthStatus,
\* login, register, logout and getCurrentUser (so at every suspension
\* point), isAuthenticated is true if and only if a token is stored.
C22_AuthenticatedIffToken ==
    isAuthenticated <=> authToken # None

\* login() is suspended in getCurrentUser right after it stored the token.
C22_Witness ==
    /\ authFlow.pc = "me_wait"
    /\ authToken = Some(accessToken(authFlow.token))
    /\ isAuthenticated

\* C23: currentUser is non-nil only while isAuthenticated is true; a GET
\* /auth/me response that arrives after logout does not set currentUser.
C23_UserOnlyWhileAuthenticated ==
    currentUser # None => isAuthenticated

\* The methods that read currentUser before they call performRequest.
UserScopedOps == {op \in Ops : OpInfo(op).needsUser}

\* C24: while isAuthenticated is true and a token is stored, a user-scoped
\* method never throws notAuthenticated before it sends its request (so the
\* first load after a launch with a stored token issues its requests).
C24_NoLocalNotAuthenticated ==
    [][\A i \in 1..MaxCalls :
         ( /\ callTasks[i].pc = "start"
           /\ callTasks[i].op \in UserScopedOps
           /\ isAuthenticated /\ authToken # None
           /\ callTasks'[i].pc # "start" )
         => ~( /\ callTasks'[i].pc = "idle"
               /\ lastOutcome'.op = callTasks[i].op
               /\ lastOutcome'.request = NoRequest
               /\ lastOutcome'.error.case = "notAuthenticated" )]_vars

(***************************************************************************)
(* Properties of FoodLogView's date selection (SpecDates)                  *)
(***************************************************************************)

\* No task of loadFoodLogs is pending or waiting for its response.
NoFoodLogRequestInFlight == \A k \in 1..MaxFoodLogTasks : foodLogTasks[k].pc = "idle"

\* C25: once no food-log request is in flight, the entries shown are those
\* of the currently selected date: a late response for a date selected
\* earlier never replaces the newer one.
C25_ShownLogsAreOfSelectedDate ==
    (NoFoodLogRequestInFlight /\ ui.FoodLogView.foodLogs.items # <<>>)
       => ui.FoodLogView.foodLogs.str = dateFormatter(selectedDate)

(***************************************************************************)
(* Properties of the achievement level (SpecLevel)                         *)
(***************************************************************************)

\* C26: for every non-negative total of points, levelProgress lies between
\* 0 and 1 inclusive and pointsToNextLevel between 1 and 100 inclusive.
C26_LevelFiguresInRange ==
    levelShown # None =>
        LET shown == Get(levelShown) IN
        /\ 0 <= shown.levelProgress.num
        /\ shown.levelProgress.num <= shown.levelProgress.den
        /\ 1 <= shown.pointsToNextLevel
        /\ shown.pointsToNextLevel <= 100

\* C27: for every list of achievements, AchievementsView.currentLevel and
\* the Level stat of the React Native ProfileScreen are the same number.
C27_SameLevelOnBothClients ==
    levelShown # None => Get(levelShown).currentLevel = Get(levelShown).rnLevel

(***************************************************************************)
(* Properties of the FoodLogScreen date navigation (SpecRNDates)           *)
(***************************************************************************)

\* C28: under any sequence of changeDate(+1) and changeDate(-1) presses the
\* forward button's disabled condition permits, the selected date is never
\* a calendar day later than today.
C28_SelectedDateNotAfterToday ==
    CalendarDay(rnSelectedDate) <= CalendarDay(rnNow)

(***************************************************************************)
(* Properties of convertToFoodLogItems (SpecConvert)                       *)
(***************************************************************************)

\* The food entries that have a string name and a numeric calories value,
\* in the order of the logs.
RECURSIVE Flatten(_)
Flatten(logs) == IF logs = <<>> THEN <<>> ELSE Head(logs) \o Flatten(Tail(logs))

NamedWithCalories(food) == food.name.json = "string" /\ food.calories.json = "number"

\* C29: convertToFoodLogItems yields exactly one FoodLogItem, in order, for
\* every food entry with a string name and a numeric calories value,
\* whether the number came as an integer or as a fraction, and a macro that
\* is missing is 0 in the item.
C29_OneItemPerNamedFood ==
    convItems # None =>
        LET entries == SelectSeq(Flatten(convLogs), NamedWithCalories)
            items == Get(convItems) IN
        /\ Len(items) = Len(entries)
        /\ \A i \in 1..Len(entries) :
              /\ i <= Len(items)
              /\ items[i].name = entries[i].name.s
              /\ items[i].calories = entries[i].calories.halves
              /\ entries[i].protein_g.json = "absent" => items[i].proteinG = 0
              /\ entries[i].carbs_g.json = "absent" => items[i].carbsG = 0
              /\ entries[i].fat_g.json = "absent" => items[i].fatG = 0

====
